---- MODULE Spec2Model ----
(***************************************************************************)
(* A model of the core of primecount: the partial sieve function phi(x, a) *)
(* with its PhiCache (src/src/phi.cpp), the Deleglise-Rivat entry points   *)
(* pi_deleglise_rivat1 / pi_deleglise_rivat4 with their special-leaves     *)
(* sums, the A + C formulas of Gourdon's variant (src/src/gourdon/AC.cpp)  *)
(* and the for_atomic_inc work-distribution loop.                          *)
(*                                                                         *)
(* TLC's integers are 32 bit wide: every input below stays under 2^31 and  *)
(* the 64/128 bit arithmetic of the program never wraps on these inputs.   *)
(***************************************************************************)
EXTENDS Integers, Sequences, FiniteSets, TLC

(***************************************************************************)
(* Bounds of the model.                                                    *)
(***************************************************************************)
\* the prime tables (the ground truth of primality) cover 2..TableMax
TableMax == 15400
\* the entry points are run on every x in -MaxNegX..MaxSmallX (and on PiSamples)
MaxSmallX == 130
MaxNegX == 3
\* primecount::max(), the largest x of pi_deleglise_rivat4, scaled down to the
\* model's integers
primecount_max == 150000
\* pi_deleglise_rivat4 is called with x up to primecount_max + MaxOver
MaxOver == 3
\* S2 is run on every x in 2..MaxS2X (and on S2Samples)
MaxS2X == 40

(***************************************************************************)
(* Integer kernels (imath.hpp, min.hpp): integer roots, powers of two.     *)
(***************************************************************************)
min(a, b) == IF a <= b THEN a ELSE b
max(a, b) == IF a >= b THEN a ELSE b
min3(a, b, c) == min(a, min(b, c))
max3(a, b, c) == max(a, max(b, c))
in_between(lo, v, hi) == IF v < lo THEN lo ELSE IF v > hi THEN hi ELSE v
ceil_div(a, b) == (a + b - 1) \div b
isquare(n) == n * n

\* largest k in [lo, hi) with Pw(k) <= n, by bisection (Pw(lo) <= n < Pw(hi))
RECURSIVE RootBisect(_, _, _, _)
RootBisect(n, e, lo, hi) ==
  IF hi - lo <= 1 THEN lo
  ELSE LET mid == (lo + hi) \div 2
           pw == CASE e = 2 -> mid * mid
                   [] e = 3 -> mid * mid * mid
                   [] e = 4 -> mid * mid * mid * mid
                   [] e = 6 -> mid * mid * mid * mid * mid * mid
       IN IF pw <= n THEN RootBisect(n, e, mid, hi) ELSE RootBisect(n, e, lo, mid)

isqrt(n) == RootBisect(n, 2, 0, 46341)
iroot3(n) == RootBisect(n, 3, 0, 1291)
iroot4(n) == RootBisect(n, 4, 0, 216)
iroot6(n) == RootBisect(n, 6, 0, 36)

RECURSIVE Pow2From(_, _)
Pow2From(n, p) == IF p >= n THEN p ELSE Pow2From(n, 2 * p)
next_power_of_2(n) == Pow2From(n, 1)

(***************************************************************************)
(* Small tables (generate.hpp): primes, pi, lpf, mu.  PrimeSeq is built by *)
(* trial division; primes(0) is the sentinel 0 of the 1-indexed vectors.   *)
(***************************************************************************)
IsPrime(n) ==
  /\ n > 1
  /\ (n % 2 # 0 \/ n = 2) /\ (n % 3 # 0 \/ n = 3) /\ (n % 5 # 0 \/ n = 5)
  /\ \A d \in 7..isqrt(n) : n % d # 0

RECURSIVE PrimesIn(_, _)
PrimesIn(lo, hi) ==
  IF lo > hi THEN <<>>
  ELSE IF lo = hi THEN (IF IsPrime(lo) THEN <<lo>> ELSE <<>>)
  ELSE LET mid == (lo + hi) \div 2
       IN PrimesIn(lo, mid) \o PrimesIn(mid + 1, hi)

PrimeSeq == PrimesIn(2, TableMax)
NumPrimes == Len(PrimeSeq)

primes(i) == IF i = 0 THEN 0 ELSE PrimeSeq[i]

\* pi[n]: the number of primes <= n (a lookup in the program; here a bisection
\* of the prime table; a lookup above TableMax has no value)
RECURSIVE PiSearch(_, _, _)
PiSearch(n, lo, hi) ==
  IF lo >= hi THEN lo
  ELSE LET mid == (lo + hi + 1) \div 2
       IN IF PrimeSeq[mid] <= n THEN PiSearch(n, mid, hi)
                                ELSE PiSearch(n, lo, mid - 1)

pi(n) ==
  IF n < 2 THEN 0
  ELSE IF n > TableMax THEN PrimeSeq[NumPrimes + n]
  ELSE PiSearch(n, 0, NumPrimes)

\* lpf[1] is the largest int32, so that 1 passes every "prime < lpf[m]" test
LpfOfOne == 2147483647

\* the least divisor d >= 2 of n >= 2
LpfFrom(n) ==
  LET D == {d \in 2..isqrt(n) : n % d = 0}
  IN IF D = {} THEN n ELSE CHOOSE d \in D : \A e \in D : d <= e

lpf(n) == IF n = 1 THEN LpfOfOne ELSE LpfFrom(n)

RECURSIVE mu(_)
mu(n) ==
  IF n = 1 THEN 1
  ELSE LET p == LpfFrom(n)
           r == n \div p
       IN IF r % p = 0 THEN 0 ELSE 0 - mu(r)

(***************************************************************************)
(* PhiTiny (PhiTiny.hpp): phi(x, a) for a <= 7 by the periodicity          *)
(*   phi(x, a) = (x div P_a) * Phi(P_a) + phi(x mod P_a, a).               *)
(***************************************************************************)
PhiTiny_max_a == 7

RECURSIVE primorial(_)
primorial(a) == IF a = 0 THEN 1 ELSE primes(a) * primorial(a - 1)

RECURSIVE totient_primorial(_)
totient_primorial(a) ==
  IF a = 0 THEN 1 ELSE (primes(a) - 1) * totient_primorial(a - 1)

\* the table entry phi(r, a) for r < P_a
RECURSIVE phi_tiny_table(_, _)
phi_tiny_table(r, a) ==
  IF a = 0 THEN r
  ELSE IF r = 0 THEN 0
  ELSE phi_tiny_table(r, a - 1) - phi_tiny_table(r \div primes(a), a - 1)

is_phi_tiny(a) == a <= PhiTiny_max_a

phi_tiny(x, a) ==
  LET pa == primorial(a)
  IN (x \div pa) * totient_primorial(a) + phi_tiny_table(x % pa, a)

(***************************************************************************)
(* The mathematical functions the claims speak of, by their definitions.   *)
(***************************************************************************)
\* pi(x) by counting
PiRef(x) == Cardinality({n \in 2..x : IsPrime(n)})

\* phi(x, a): the integers in [1, x] not divisible by any of the first a primes
PhiRef(x, a) ==
  Cardinality({n \in 1..x : \A i \in 1..a : n % PrimeSeq[i] # 0})

\* n is square-free and its least prime factor is larger than p
IsLeafFactor(n, p) ==
  \A k \in 1..NumPrimes :
     PrimeSeq[k] > n \/ n % PrimeSeq[k] # 0
       \/ (PrimeSeq[k] > p /\ n % (PrimeSeq[k] * PrimeSeq[k]) # 0)

\* the Moebius function of a square-free n
MuRef(n) ==
  IF Cardinality({k \in 1..NumPrimes :
                   PrimeSeq[k] <= n /\ n % PrimeSeq[k] = 0}) % 2 = 0
  THEN 1 ELSE 0 - 1

\* the special leaves of one b with lo <= m <= hi (p_b * m > y)
RECURSIVE S2Ref_b(_, _, _, _, _)
S2Ref_b(x, y, b, lo, hi) ==
  IF lo > hi THEN 0
  ELSE IF lo = hi
  THEN IF PrimeSeq[b] * lo > y /\ IsLeafFactor(lo, PrimeSeq[b])
       THEN 0 - MuRef(lo) * PhiRef(x \div (PrimeSeq[b] * lo), b - 1)
       ELSE 0
  ELSE LET mid == (lo + hi) \div 2
       IN S2Ref_b(x, y, b, lo, mid) + S2Ref_b(x, y, b, mid + 1, hi)

\* the special-leaves sum over the b with lo <= b <= hi
RECURSIVE S2Ref_range(_, _, _, _)
S2Ref_range(x, y, lo, hi) ==
  IF lo > hi THEN 0
  ELSE IF lo = hi THEN S2Ref_b(x, y, lo, 1, y)
  ELSE LET mid == (lo + hi) \div 2
       IN S2Ref_range(x, y, lo, mid) + S2Ref_range(x, y, mid + 1, hi)

\* all b with c < b <= pi(y)
S2Ref(x, y, c) == S2Ref_range(x, y, c + 1, PiRef(y))

(***************************************************************************)
(* pi_deleglise_rivat1.cpp: the tuning factor.  std::log is modelled by a  *)
(* fixed-point binary logarithm (12 fractional bits); alpha is kept with   *)
(* 10 fractional bits.  Valid for x < 2^23.                                *)
(***************************************************************************)
RECURSIVE ilog2(_)
ilog2(n) == IF n < 2 THEN 0 ELSE 1 + ilog2(n \div 2)

RECURSIVE log2_frac(_, _, _)
log2_frac(m, bits, acc) ==
  IF bits = 0 THEN acc
  ELSE LET sq == (m * m) \div 16384
       IN IF sq >= 32768 THEN log2_frac(sq \div 2, bits - 1, 2 * acc + 1)
                         ELSE log2_frac(sq, bits - 1, 2 * acc)

\* log(d) * 1024
log_fix(d) ==
  LET k == ilog2(d)
      m == IF k <= 14 THEN d * 2^(14 - k) ELSE d \div 2^(k - 14)
      lg2 == k * 4096 + log2_frac(m, 12, 0)
  IN (lg2 * 2839) \div 16384

\* in_between(1, log(x)^3 / divisor, iroot<6>(x)) * 1024
compute_alpha(x, divisor) ==
  LET l == log_fix(x)
      l2 == (l * l) \div 1024
      l3 == (l2 * (l \div 4)) \div 256
  IN in_between(1024, l3 \div divisor, 1024 * iroot6(x))

DR1_divisor == 1500

\* y = (int64_t) (alpha * iroot<3>(x))
DR1_y(x) == (compute_alpha(x, DR1_divisor) * iroot3(x)) \div 1024

(***************************************************************************)
(* P2(x, y) and S1(x, y, c) (P2.cpp, S1.cpp): the 2nd partial sieve        *)
(* function and the ordinary leaves.                                       *)
(***************************************************************************)
\* the number of n = p * q <= x with y < p <= q, p and q prime
RECURSIVE P2_loop(_, _, _)
P2_loop(x, lo, hi) ==
  IF lo > hi THEN 0
  ELSE IF lo = hi THEN pi(x \div primes(lo)) - lo + 1
  ELSE LET mid == (lo + hi) \div 2
       IN P2_loop(x, lo, mid) + P2_loop(x, mid + 1, hi)

P2(x, y) == P2_loop(x, pi(y) + 1, pi(isqrt(x)))

\* the sum of mu(n) * phi(x / n, c) over the n <= y with lpf(n) > primes[c]
\* (the terms of the n in lo..hi)
RECURSIVE S1_loop(_, _, _, _)
S1_loop(x, c, lo, hi) ==
  IF lo > hi THEN 0
  ELSE IF lo = hi
  THEN IF mu(lo) # 0 /\ lpf(lo) > primes(c)
       THEN mu(lo) * phi_tiny(x \div lo, c) ELSE 0
  ELSE LET mid == (lo + hi) \div 2
       IN S1_loop(x, c, lo, mid) + S1_loop(x, c, mid + 1, hi)

S1(x, y, c) == S1_loop(x, c, 1, y)

(***************************************************************************)
(* pi_deleglise_rivat1.cpp: trivial and easy special leaves.               *)
(***************************************************************************)
\* what the iterations lo <= b <= hi of the loop add to S2_result
RECURSIVE S2_trivial_loop(_, _, _, _)
S2_trivial_loop(x, pi_y, lo, hi) ==
  IF lo > hi THEN 0
  ELSE IF lo = hi
  THEN LET prime == primes(lo)
       IN pi_y - pi(max(x \div (prime * prime), prime))
  ELSE LET mid == (lo + hi) \div 2
       IN S2_trivial_loop(x, pi_y, lo, mid)
          + S2_trivial_loop(x, pi_y, mid + 1, hi)

\* S2_trivial starting one b early, at max(c, pi_sqrtz)
S2_trivial_early(x, y, z, c) ==
  LET pi_y == pi(y)
      pi_sqrtz == pi(min(isqrt(z), y))
  IN S2_trivial_loop(x, pi_y, max(c, pi_sqrtz), pi_y - 1)

\* for (b = max(c, pi_sqrtz + 1); b < pi_y; b++)
S2_trivial(x, y, z, c) ==
  LET pi_y == pi(y)
      pi_sqrtz == pi(min(isqrt(z), y))
  IN S2_trivial_loop(x, pi_y, max(c, pi_sqrtz + 1), pi_y - 1)

\* the clustered easy leaves of one b; yields <<l, S2_result>>
RECURSIVE S2_easy_clustered(_, _, _, _, _)
S2_easy_clustered(x, b, min_clustered_easy_leaf, l, acc) ==
  IF primes(l) > min_clustered_easy_leaf
  THEN LET prime == primes(b)
           n == prime * primes(l)
           xn == x \div n
           phi_xn == pi(xn) - b + 2
           m == prime * primes(b + phi_xn - 1)
           xm == max(x \div m, min_clustered_easy_leaf)
           l2 == pi(xm)
       IN S2_easy_clustered(x, b, min_clustered_easy_leaf, l2,
                            acc + phi_xn * (l - l2))
  ELSE <<l, acc>>

\* where "for (; primes[l] > min_leaf; l--)" stops when it starts at l
sparse_end(l, min_leaf) ==
  LET stop == {j \in 0..l : primes(j) <= min_leaf}
  IN IF stop = {} THEN 0 - 1 ELSE CHOOSE j \in stop : \A k \in stop : k <= j

\* what the iterations lo <= l <= hi of the sparse easy leaves add
RECURSIVE S2_easy_sparse(_, _, _, _)
S2_easy_sparse(x, b, lo, hi) ==
  IF lo > hi THEN 0
  ELSE IF lo = hi
  THEN LET n == primes(b) * primes(lo)
           xn == x \div n
       IN pi(xn) - b + 2
  ELSE LET mid == (lo + hi) \div 2
       IN S2_easy_sparse(x, b, mid + 1, hi) + S2_easy_sparse(x, b, lo, mid)

\* one iteration b of the loop of S2_easy
S2_easy_b(x, y, z, b) ==
  LET prime == primes(b)
      min_trivial_leaf == x \div (prime * prime)
      min_hard_leaf == max(y \div prime, prime)
      min_sparse_easy_leaf == max(z \div prime, min_hard_leaf)
      min_clustered_easy_leaf == max(isqrt(x \div prime), min_hard_leaf)
      l == pi(min(min_trivial_leaf, y))
      cl == S2_easy_clustered(x, b, min_clustered_easy_leaf, l, 0)
  IN cl[2] + S2_easy_sparse(x, b, sparse_end(cl[1], min_sparse_easy_leaf) + 1,
                            cl[1])

\* what the iterations lo <= b <= hi add to S2_result
RECURSIVE S2_easy_loop(_, _, _, _, _)
S2_easy_loop(x, y, z, lo, hi) ==
  IF lo > hi THEN 0
  ELSE IF lo = hi THEN S2_easy_b(x, y, z, lo)
  ELSE LET mid == (lo + hi) \div 2
       IN S2_easy_loop(x, y, z, lo, mid) + S2_easy_loop(x, y, z, mid + 1, hi)

\* for (b = max(c, pi_sqrty) + 1; b <= pi_x13; b++)
S2_easy(x, y, z, c) ==
  LET pi_sqrty == pi(isqrt(y))
      pi_x13 == pi(iroot3(x))
  IN S2_easy_loop(x, y, z, max(c, pi_sqrty) + 1, pi_x13)

\* the iterations of "while (primes[l] > min_clustered_easy_leaf)" as
\* triples <<l, b + phi_xn - 1, l2>>: l on entry, the index of the read of
\* primes[], and the l the iteration leaves; the list ends with the first
\* iteration that does not decrease l
RECURSIVE S2_easy_clustered_steps(_, _, _, _)
S2_easy_clustered_steps(x, b, min_clustered_easy_leaf, l) ==
  IF primes(l) > min_clustered_easy_leaf
  THEN LET prime == primes(b)
           xn == x \div (prime * primes(l))
           phi_xn == pi(xn) - b + 2
           index == b + phi_xn - 1
           m == prime * primes(index)
           xm == max(x \div m, min_clustered_easy_leaf)
           l2 == pi(xm)
       IN << <<l, index, l2>> >>
          \o (IF l2 < l
              THEN S2_easy_clustered_steps(x, b, min_clustered_easy_leaf, l2)
              ELSE << >>)
  ELSE << >>

\* the bounds with min_clustered_easy_leaf = min_hard_leaf, without
\* isqrt(x / prime), used to validate the checks
S2_easy_b_bounds_no_sqrt(x, y, z, b) ==
  LET prime == primes(b)
      min_trivial_leaf == x \div (prime * prime)
      min_hard_leaf == max(y \div prime, prime)
  IN [l |-> pi(min(min_trivial_leaf, y)),
      min_clustered_easy_leaf |-> min_hard_leaf,
      min_sparse_easy_leaf |-> max(z \div prime, min_hard_leaf)]

\* l before the clustered loop and the bounds of both loops, for one b of
\* S2_easy
S2_easy_b_bounds(x, y, z, b) ==
  LET prime == primes(b)
      min_trivial_leaf == x \div (prime * prime)
      min_hard_leaf == max(y \div prime, prime)
  IN [l |-> pi(min(min_trivial_leaf, y)),
      min_clustered_easy_leaf |-> max(isqrt(x \div prime), min_hard_leaf),
      min_sparse_easy_leaf |-> max(z \div prime, min_hard_leaf)]

\* the indices of the pi[] lookups of S2_trivial
S2_trivial_pi_lookups(x, y, z, c) ==
  LET pi_y == pi(y)
      pi_sqrtz == pi(min(isqrt(z), y))
  IN {y, min(isqrt(z), y)}
     \cup {max(x \div (primes(b) * primes(b)), primes(b)) :
             b \in max(c, pi_sqrtz + 1)..(pi_y - 1)}

\* the indices pi[xn] and pi[xm] of the clustered easy leaves of one b
RECURSIVE S2_easy_clustered_pi_lookups(_, _, _, _)
S2_easy_clustered_pi_lookups(x, b, min_clustered_easy_leaf, l) ==
  IF primes(l) > min_clustered_easy_leaf
  THEN LET prime == primes(b)
           xn == x \div (prime * primes(l))
           phi_xn == pi(xn) - b + 2
           m == prime * primes(b + phi_xn - 1)
           xm == max(x \div m, min_clustered_easy_leaf)
       IN {xn, xm}
          \cup S2_easy_clustered_pi_lookups(x, b, min_clustered_easy_leaf,
                                            pi(xm))
  ELSE {}

\* the indices of the pi[] lookups of one iteration b of S2_easy
S2_easy_b_pi_lookups(x, y, z, b) ==
  LET prime == primes(b)
      min_trivial_leaf == x \div (prime * prime)
      min_hard_leaf == max(y \div prime, prime)
      min_sparse_easy_leaf == max(z \div prime, min_hard_leaf)
      min_clustered_easy_leaf == max(isqrt(x \div prime), min_hard_leaf)
      l == pi(min(min_trivial_leaf, y))
      cl == S2_easy_clustered(x, b, min_clustered_easy_leaf, l, 0)
  IN {min(min_trivial_leaf, y)}
     \cup S2_easy_clustered_pi_lookups(x, b, min_clustered_easy_leaf, l)
     \cup {x \div (prime * primes(k)) :
             k \in (sparse_end(cl[1], min_sparse_easy_leaf) + 1)..cl[1]}

\* the indices of the pi[] lookups of S2_easy
S2_easy_pi_lookups(x, y, z, c) ==
  {isqrt(y), iroot3(x)}
  \cup UNION {S2_easy_b_pi_lookups(x, y, z, b) :
                b \in (max(c, pi(isqrt(y))) + 1)..pi(iroot3(x))}

(***************************************************************************)
(* BitSieve and the counters tree (BitSieve.hpp, tos_counters.hpp).  The   *)
(* sieve is the set of the positions whose bit is 1; the counters are a    *)
(* binary indexed tree over the positions 0..segment_size-1.               *)
(***************************************************************************)
RECURSIVE lsb(_)
lsb(n) == IF n % 2 = 1 THEN 1 ELSE 2 * lsb(n \div 2)

BitSieve_fill(low, high, segment_size) ==
  {i \in 0..(segment_size - 1) :
     /\ low + i < high
     /\ (low + i) % 2 # 0 /\ (low + i) % 3 # 0 /\ (low + i) % 5 # 0}

\* counters[i] counts the set bits at the positions (i & (i + 1))..i
cnt_finit(sieve, segment_size) ==
  [i \in 0..(segment_size - 1) |->
     Cardinality({j \in sieve : j >= i + 1 - lsb(i + 1) /\ j <= i})]

RECURSIVE cnt_update(_, _, _)
cnt_update(counters, pos, segment_size) ==
  IF pos >= segment_size THEN counters
  ELSE cnt_update([counters EXCEPT ![pos] = @ - 1], pos + lsb(pos + 1),
                  segment_size)

RECURSIVE cnt_query_loop(_, _, _)
cnt_query_loop(counters, p, acc) ==
  IF p = 0 THEN acc
  ELSE cnt_query_loop(counters, p - lsb(p), acc + counters[p - 1])

cnt_query(counters, pos) == cnt_query_loop(counters, pos + 1, 0)

(***************************************************************************)
(* pi_deleglise_rivat1.cpp: cross_off and S2_sieve.  S2_sieve is a loop    *)
(* over the segments and, in each segment, over b; st is the record of its *)
(* local variables, st.pc its position.                                    *)
(***************************************************************************)
\* yields <<next_multiple, sieve, counters>>
\* cross_off without the cnt_update of the counters
RECURSIVE cross_off_stale(_, _, _, _, _, _, _)
cross_off_stale(prime, low, high, k, sieve, counters, segment_size) ==
  IF k < high
  THEN cross_off_stale(prime, low, high, k + prime * 2, sieve \ {k - low},
                       counters, segment_size)
  ELSE <<k, sieve, counters>>

\* cross_off with cnt_update at every multiple, set or not
RECURSIVE cross_off_always(_, _, _, _, _, _, _)
cross_off_always(prime, low, high, k, sieve, counters, segment_size) ==
  IF k < high
  THEN cross_off_always(prime, low, high, k + prime * 2, sieve \ {k - low},
                        cnt_update(counters, k - low, segment_size),
                        segment_size)
  ELSE <<k, sieve, counters>>

\* cross_off stepping by prime instead of prime * 2, used to validate the
\* checks
RECURSIVE cross_off_step_prime(_, _, _, _, _, _, _)
cross_off_step_prime(prime, low, high, k, sieve, counters, segment_size) ==
  IF k < high
  THEN IF (k - low) \in sieve
       THEN cross_off_step_prime(prime, low, high, k + prime,
                                 sieve \ {k - low},
                                 cnt_update(counters, k - low, segment_size),
                                 segment_size)
       ELSE cross_off_step_prime(prime, low, high, k + prime, sieve,
                                 counters, segment_size)
  ELSE <<k, sieve, counters>>

RECURSIVE cross_off(_, _, _, _, _, _, _)
cross_off(prime, low, high, k, sieve, counters, segment_size) ==
  IF k < high
  THEN IF (k - low) \in sieve
       THEN cross_off(prime, low, high, k + prime * 2, sieve \ {k - low},
                      cnt_update(counters, k - low, segment_size), segment_size)
       ELSE cross_off(prime, low, high, k + prime * 2, sieve, counters,
                      segment_size)
  ELSE <<k, sieve, counters>>

\* the multiples of one of the first c primes, without counters;
\* yields <<k, sieve>>
RECURSIVE S2_sieve_unset(_, _, _, _, _)
S2_sieve_unset(prime, low, high, k, sieve) ==
  IF k < high
  THEN S2_sieve_unset(prime, low, high, k + prime * 2, sieve \ {k - low})
  ELSE <<k, sieve>>

\* for (; b <= c; b++): yields <<next, sieve>>
RECURSIVE S2_sieve_presieve(_, _, _, _, _, _)
S2_sieve_presieve(b, c, low, high, next, sieve) ==
  IF b > c THEN <<next, sieve>>
  ELSE LET u == S2_sieve_unset(primes(b), low, high, next[b], sieve)
       IN S2_sieve_presieve(b + 1, c, low, high,
                            [next EXCEPT ![b] = u[1]], u[2])

S2_sieve_pi_sqrty(st) == pi(isqrt(st.y))
S2_sieve_pi_sqrtz(st) == pi(min(isqrt(st.z), st.y))
S2_sieve_high(st) == min(st.low + st.segment_size, st.limit)

\* the position after the loop variable became b
S2_sieve_pc(st, b) ==
  IF b <= S2_sieve_pi_sqrty(st) THEN "rangeA"
  ELSE IF b <= S2_sieve_pi_sqrtz(st) THEN "rangeB"
  ELSE "next_segment"

S2_sieve_init(x, y, z, c) ==
  LET limit == z + 1
      segment_size == next_power_of_2(isqrt(limit))
  IN [x |-> x, y |-> y, z |-> z, c |-> c,
      limit |-> limit, segment_size |-> segment_size,
      low |-> 1, b |-> 2, sieve |-> {},
      counters |-> [i \in 0..(segment_size - 1) |-> 0],
      next |-> [i \in 0..pi(y) |-> primes(i)],
      phi |-> [i \in 0..pi(y) |-> 0],
      S2_result |-> 0,
      pc |-> IF 1 < limit THEN "fill" ELSE "done"]

\* S2_sieve_fill with cnt_finit before the loop over the first c primes
S2_sieve_fill_early(st) ==
  LET high == S2_sieve_high(st)
      filled == BitSieve_fill(st.low, high, st.segment_size)
      ps == S2_sieve_presieve(2, st.c, st.low, high, st.next, filled)
      b == max(2, st.c + 1)
  IN [st EXCEPT !.b = b, !.next = ps[1], !.sieve = ps[2],
                !.counters = cnt_finit(filled, st.segment_size),
                !.pc = S2_sieve_pc(st, b)]

\* sieve.fill, the first c primes, cnt_finit
S2_sieve_fill(st) ==
  LET high == S2_sieve_high(st)
      ps == S2_sieve_presieve(2, st.c, st.low, high, st.next,
                              BitSieve_fill(st.low, high, st.segment_size))
      b == max(2, st.c + 1)
  IN [st EXCEPT !.b = b, !.next = ps[1], !.sieve = ps[2],
                !.counters = cnt_finit(ps[2], st.segment_size),
                !.pc = S2_sieve_pc(st, b)]

\* the leaves n = primes[b] * m of one b, hi >= m >= lo: what the loop
\* "for (m = max_m; m > min_m; m--)" adds to S2_result for these m
RECURSIVE S2_sieve_leavesA(_, _, _)
S2_sieve_leavesA(st, lo, hi) ==
  IF lo > hi THEN 0
  ELSE IF lo = hi
  THEN IF mu(lo) # 0 /\ primes(st.b) < lpf(lo)
       THEN LET n == primes(st.b) * lo
                count == cnt_query(st.counters, (st.x \div n) - st.low)
                phi_xn == st.phi[st.b] + count
            IN 0 - mu(lo) * phi_xn
       ELSE 0
  ELSE LET mid == (lo + hi) \div 2
       IN S2_sieve_leavesA(st, mid + 1, hi) + S2_sieve_leavesA(st, lo, mid)

\* S2_sieve_advance with phi[b] increased after the cross_off
S2_sieve_advance_late(st, S2_result) ==
  LET high == S2_sieve_high(st)
      co == cross_off(primes(st.b), st.low, high, st.next[st.b], st.sieve,
                      st.counters, st.segment_size)
  IN [st EXCEPT !.S2_result = S2_result,
                !.phi[st.b] = @ + cnt_query(co[3], (high - 1) - st.low),
                !.next[st.b] = co[1], !.sieve = co[2], !.counters = co[3],
                !.b = st.b + 1, !.pc = S2_sieve_pc(st, st.b + 1)]

\* phi[b] += cnt_query(high - 1 - low); cross_off(...); b++
S2_sieve_advance(st, S2_result) ==
  LET high == S2_sieve_high(st)
      co == cross_off(primes(st.b), st.low, high, st.next[st.b], st.sieve,
                      st.counters, st.segment_size)
  IN [st EXCEPT !.S2_result = S2_result,
                !.phi[st.b] = @ + cnt_query(st.counters, (high - 1) - st.low),
                !.next[st.b] = co[1], !.sieve = co[2], !.counters = co[3],
                !.b = st.b + 1, !.pc = S2_sieve_pc(st, st.b + 1)]

\* one b with c + 1 <= b <= pi_sqrty
S2_sieve_rangeA(st) ==
  LET high == S2_sieve_high(st)
      prime == primes(st.b)
      min_m == max(st.x \div (prime * high), st.y \div prime)
      max_m == min(st.x \div (prime * st.low), st.y)
  IN IF prime >= max_m THEN [st EXCEPT !.pc = "next_segment"]
     ELSE S2_sieve_advance(st,
            st.S2_result + S2_sieve_leavesA(st, min_m + 1, max_m))

\* the hard leaves n = primes[b] * primes[l] of one b, hi >= l >= lo: what
\* the loop "for (; primes[l] > min_hard_leaf; l--)" adds for these l
RECURSIVE S2_sieve_leavesB(_, _, _)
S2_sieve_leavesB(st, lo, hi) ==
  IF lo > hi THEN 0
  ELSE IF lo = hi
  THEN LET n == primes(st.b) * primes(lo)
           xn == st.x \div n
           count == cnt_query(st.counters, xn - st.low)
           phi_xn == st.phi[st.b] + count
       IN phi_xn
  ELSE LET mid == (lo + hi) \div 2
       IN S2_sieve_leavesB(st, mid + 1, hi) + S2_sieve_leavesB(st, lo, mid)

\* one b with pi_sqrty < b <= pi_sqrtz
S2_sieve_rangeB(st) ==
  LET high == S2_sieve_high(st)
      prime == primes(st.b)
      l == pi(min3(st.x \div (prime * st.low), st.z \div prime, st.y))
      min_hard_leaf == max3(st.x \div (prime * high), st.y \div prime, prime)
  IN IF prime >= primes(l) THEN [st EXCEPT !.pc = "next_segment"]
     ELSE S2_sieve_advance(st,
            st.S2_result
            + S2_sieve_leavesB(st, sparse_end(l, min_hard_leaf) + 1, l))

\* a variant whose leaves are not bounded below by x / (prime * high), used
\* to validate the checks
S2_sieve_leaf_xn_wide(st) ==
  LET prime == primes(st.b)
  IN IF st.pc = "rangeA"
     THEN LET min_m == st.y \div prime
              max_m == min(st.x \div (prime * st.low), st.y)
          IN IF prime >= max_m THEN {}
             ELSE {st.x \div (prime * m) :
                     m \in {k \in (min_m + 1)..max_m :
                              mu(k) # 0 /\ prime < lpf(k)}}
     ELSE LET l == pi(min3(st.x \div (prime * st.low), st.z \div prime, st.y))
              min_hard_leaf == max(st.y \div prime, prime)
          IN IF prime >= primes(l) THEN {}
             ELSE {st.x \div (prime * primes(k)) :
                     k \in (sparse_end(l, min_hard_leaf) + 1)..l}

\* the floor(x / n) of the leaves n for which the current b calls cnt_query
S2_sieve_leaf_xn(st) ==
  LET high == S2_sieve_high(st)
      prime == primes(st.b)
  IN IF st.pc = "rangeA"
     THEN LET min_m == max(st.x \div (prime * high), st.y \div prime)
              max_m == min(st.x \div (prime * st.low), st.y)
          IN IF prime >= max_m THEN {}
             ELSE {st.x \div (prime * m) :
                     m \in {k \in (min_m + 1)..max_m :
                              mu(k) # 0 /\ prime < lpf(k)}}
     ELSE LET l == pi(min3(st.x \div (prime * st.low), st.z \div prime, st.y))
              min_hard_leaf == max3(st.x \div (prime * high),
                                    st.y \div prime, prime)
          IN IF prime >= primes(l) THEN {}
             ELSE {st.x \div (prime * primes(k)) :
                     k \in (sparse_end(l, min_hard_leaf) + 1)..l}

\* the indices of the pi[] lookups of S2_sieve: before the loop, and for the
\* current b
S2_sieve_pi_lookups(st) ==
  {isqrt(st.y), min(isqrt(st.z), st.y)}
  \cup IF st.pc = "rangeB"
       THEN {min3(st.x \div (primes(st.b) * st.low),
                  st.z \div primes(st.b), st.y)}
       ELSE {}

\* next_segment: low += segment_size
S2_sieve_next_segment(st) ==
  LET low == st.low + st.segment_size
  IN [st EXCEPT !.low = low,
                !.pc = IF low < st.limit THEN "fill" ELSE "done"]

S2_sieve_step(st) ==
  CASE st.pc = "fill" -> S2_sieve_fill(st)
    [] st.pc = "rangeA" -> S2_sieve_rangeA(st)
    [] st.pc = "rangeB" -> S2_sieve_rangeB(st)
    [] st.pc = "next_segment" -> S2_sieve_next_segment(st)

\* the rest of the current segment, up to the next "fill" or to "done"
RECURSIVE S2_sieve_segment(_)
S2_sieve_segment(st) ==
  IF st.pc = "next_segment" THEN S2_sieve_step(st)
  ELSE S2_sieve_segment(S2_sieve_step(st))

RECURSIVE S2_sieve_run(_)
S2_sieve_run(st) ==
  IF st.pc = "done" THEN st ELSE S2_sieve_run(S2_sieve_segment(st))

S2_sieve(x, y, z, c) == S2_sieve_run(S2_sieve_init(x, y, z, c)).S2_result

\* S2 of pi_deleglise_rivat1.cpp
S2(x, y, z, c) ==
  S2_trivial(x, y, z, c) + S2_easy(x, y, z, c) + S2_sieve(x, y, z, c)

\* the guard of pi_deleglise_rivat1: if (x < 2) return 0;
DR1_guard(x) == IF x < 2 THEN "return 0" ELSE "compute"

(***************************************************************************)
(* FactorTable (FactorTable.hpp): mu and lpf at the square-free numbers    *)
(* only; index i stands for the (i+1)-th square-free number.               *)
(***************************************************************************)
RECURSIVE SquareFreeIn(_, _)
SquareFreeIn(lo, hi) ==
  IF lo > hi THEN <<>>
  ELSE IF lo = hi THEN (IF mu(lo) # 0 THEN <<lo>> ELSE <<>>)
  ELSE LET mid == (lo + hi) \div 2
       IN SquareFreeIn(lo, mid) \o SquareFreeIn(mid + 1, hi)

FactorTable_numbers == SquareFreeIn(1, TableMax)

RECURSIVE FactorTable_search(_, _, _)
FactorTable_search(n, lo, hi) ==
  IF lo >= hi THEN lo
  ELSE LET mid == (lo + hi + 1) \div 2
       IN IF FactorTable_numbers[mid] <= n THEN FactorTable_search(n, mid, hi)
                                           ELSE FactorTable_search(n, lo, mid - 1)

\* the index of the largest square-free number <= n (n >= 1)
FactorTable_to_index(n) ==
  FactorTable_search(n, 1, Len(FactorTable_numbers)) - 1
FactorTable_get_number(i) == FactorTable_numbers[i + 1]
FactorTable_lpf(i) == lpf(FactorTable_get_number(i))
FactorTable_mu(i) == mu(FactorTable_get_number(i))

(***************************************************************************)
(* pi_deleglise_rivat4.cpp: S2 with the trivial, easy and hard leaves in   *)
(* one loop, and the entry point.                                          *)
(***************************************************************************)
DR4_pi_y(st) == pi(st.y)

DR4_pc(st, b) ==
  IF b <= S2_sieve_pi_sqrty(st) THEN "rangeA"
  ELSE IF b < DR4_pi_y(st) THEN "rangeB"
  ELSE "next_segment"

DR4_S2_init(x, y, z, c) ==
  LET limit == z + 1
      segment_size == next_power_of_2(isqrt(limit))
      pi_sqrtz == pi(min(isqrt(z), y))
  IN [x |-> x, y |-> y, z |-> z, c |-> c,
      limit |-> limit, segment_size |-> segment_size,
      low |-> 1, b |-> c + 1, sieve |-> {},
      counters |-> [i \in 0..(segment_size - 1) |-> 0],
      next |-> [i \in 0..pi_sqrtz |-> primes(i)],
      phi |-> [i \in 0..pi_sqrtz |-> 0],
      S2_result |-> 0,
      pc |-> IF 1 < limit THEN "fill" ELSE "done"]

\* b = c + 1; if (c < pi_sqrtz) { sieve.memset(low); ...; cnt_finit(...) }
DR4_S2_fill(st) ==
  LET high == S2_sieve_high(st)
      b == st.c + 1
  IN IF st.c < S2_sieve_pi_sqrtz(st)
     THEN LET ps == S2_sieve_presieve(2, st.c, st.low, high, st.next,
                      BitSieve_fill(st.low, st.low + st.segment_size,
                                    st.segment_size))
          IN [st EXCEPT !.b = b, !.next = ps[1], !.sieve = ps[2],
                        !.counters = cnt_finit(ps[2], st.segment_size),
                        !.pc = DR4_pc(st, b)]
     ELSE [st EXCEPT !.b = b, !.pc = DR4_pc(st, b)]

\* what "for (m = max_m; m > min_m; m--)" adds to S2_result for the
\* indices lo <= m <= hi of the FactorTable
RECURSIVE DR4_S2_leavesA(_, _, _)
DR4_S2_leavesA(st, lo, hi) ==
  IF lo > hi THEN 0
  ELSE IF lo = hi
  THEN IF primes(st.b) < FactorTable_lpf(lo)
       THEN LET n == primes(st.b) * FactorTable_get_number(lo)
                xn == st.x \div n
                count == cnt_query(st.counters, xn - st.low)
                phi_xn == st.phi[st.b] + count
            IN 0 - FactorTable_mu(lo) * phi_xn
       ELSE 0
  ELSE LET mid == (lo + hi) \div 2
       IN DR4_S2_leavesA(st, mid + 1, hi) + DR4_S2_leavesA(st, lo, mid)

DR4_S2_advance(st, S2_result) ==
  LET adv == S2_sieve_advance(st, S2_result)
  IN [adv EXCEPT !.pc = DR4_pc(st, st.b + 1)]

DR4_S2_rangeA(st) ==
  LET high == S2_sieve_high(st)
      prime == primes(st.b)
      min_m == max(min(st.x \div (prime * high), st.y), st.y \div prime)
      max_m == min(st.x \div (prime * st.low), st.y)
  IN IF prime >= max_m THEN [st EXCEPT !.pc = "next_segment"]
     ELSE DR4_S2_advance(st,
            st.S2_result + DR4_S2_leavesA(st, FactorTable_to_index(min_m) + 1,
                                          FactorTable_to_index(max_m)))

\* one b with pi_sqrty < b < pi_y
DR4_S2_rangeB(st) ==
  LET high == S2_sieve_high(st)
      b == st.b
      prime == primes(b)
      l0 == pi(min(st.x \div (prime * st.low), st.y))
      min_hard_leaf == max3(min(st.x \div (prime * high), st.y),
                            st.y \div prime, prime)
      min_trivial_leaf == max(min_hard_leaf, min(st.x \div (prime * prime), st.y))
      min_clustered_easy_leaf ==
        max(min_hard_leaf, min(isqrt(st.x \div prime), st.y))
      min_sparse_easy_leaf == max(min_hard_leaf, min(st.z \div prime, st.y))
      \* trivial leaves
      trivial == primes(l0) > min_trivial_leaf
      l1 == IF trivial THEN pi(min_trivial_leaf) ELSE l0
      r1 == IF trivial THEN st.S2_result + (l0 - l1) ELSE st.S2_result
      \* clustered and sparse easy leaves
      cl == S2_easy_clustered(st.x, b, min_clustered_easy_leaf, l1, r1)
      l2 == cl[1]
      l3 == sparse_end(l2, min_sparse_easy_leaf)
      r2 == cl[2] + S2_easy_sparse(st.x, b, l3 + 1, l2)
  IN IF prime >= primes(l0) THEN [st EXCEPT !.pc = "next_segment"]
     ELSE IF b <= S2_sieve_pi_sqrtz(st)
          THEN DR4_S2_advance(st,
                 r2 + S2_sieve_leavesB(st,
                        sparse_end(l3, min_hard_leaf) + 1, l3))
          ELSE [st EXCEPT !.S2_result = r2, !.b = b + 1,
                          !.pc = DR4_pc(st, b + 1)]

\* l before the clustered loop and the bounds of both loops, for the b of
\* the loop "for (; b < pi_y; b++)" of S2
DR4_S2_easy_bounds(st) ==
  LET high == S2_sieve_high(st)
      prime == primes(st.b)
      l0 == pi(min(st.x \div (prime * st.low), st.y))
      min_hard_leaf == max3(min(st.x \div (prime * high), st.y),
                            st.y \div prime, prime)
      min_trivial_leaf == max(min_hard_leaf, min(st.x \div (prime * prime), st.y))
  IN [l |-> IF primes(l0) > min_trivial_leaf THEN pi(min_trivial_leaf) ELSE l0,
      min_clustered_easy_leaf |->
        max(min_hard_leaf, min(isqrt(st.x \div prime), st.y)),
      min_sparse_easy_leaf |-> max(min_hard_leaf, min(st.z \div prime, st.y))]

DR4_S2_step(st) ==
  CASE st.pc = "fill" -> DR4_S2_fill(st)
    [] st.pc = "rangeA" -> DR4_S2_rangeA(st)
    [] st.pc = "rangeB" -> DR4_S2_rangeB(st)
    [] st.pc = "next_segment" -> S2_sieve_next_segment(st)

RECURSIVE DR4_S2_segment(_)
DR4_S2_segment(st) ==
  IF st.pc = "next_segment" THEN DR4_S2_step(st)
  ELSE DR4_S2_segment(DR4_S2_step(st))

RECURSIVE DR4_S2_run(_)
DR4_S2_run(st) ==
  IF st.pc = "done" THEN st ELSE DR4_S2_run(DR4_S2_segment(st))

DR4_S2(x, y, z, c) == DR4_S2_run(DR4_S2_init(x, y, z, c)).S2_result

DR4_divisor == 1000
DR4_y(x) == (compute_alpha(x, DR4_divisor) * iroot3(x)) \div 1024

\* the guards of pi_deleglise_rivat4:
\* if (x < 2) return 0; if (x > to_maxint(primecount::max())) throw ...
\* the guards with a range check that rejects negative x
DR4_guard_signed(x) ==
  IF x < 0 THEN "throw"
  ELSE IF x < 2 THEN "return 0"
  ELSE IF x > primecount_max THEN "throw"
  ELSE "compute"

\* the guards with the maximum compared one too high
DR4_guard_late(x) ==
  IF x < 2 THEN "return 0"
  ELSE IF x > primecount_max + 1 THEN "throw"
  ELSE "compute"

DR4_guard(x) ==
  IF x < 2 THEN "return 0"
  ELSE IF x > primecount_max THEN "throw"
  ELSE "compute"

(***************************************************************************)
(* phi.cpp: PhiCache.  A cache is the record of the fields of one PhiCache *)
(* object; sieve_[a] is the set of the numbers <= max_x_ whose bit is set, *)
(* primes_last the last valid index of primes_ and pi_size = pi_.size().   *)
(***************************************************************************)
\* (uint64_t) std::pow(x, 1 / 2.3): the largest m with 2.3 * log(m) <= log(x)
RECURSIVE pow_bisect(_, _, _)
pow_bisect(lx, lo, hi) ==
  IF hi - lo <= 1 THEN lo
  ELSE LET mid == (lo + hi) \div 2
       IN IF 23 * log_fix(mid) <= 10 * lx THEN pow_bisect(lx, mid, hi)
                                          ELSE pow_bisect(lx, lo, mid)

pow_1_2_3(x) == IF x < 1 THEN 0 ELSE pow_bisect(log_fix(x), 1, x + 1)

\* sizeof(sieve_t) with #pragma pack(1): uint32_t count, uint64_t bits
sizeof_sieve_t == 12

PhiCache_empty(primes_last, pi_size) ==
  [max_x_ |-> 0, max_x_size_ |-> 0, max_a_cached_ |-> 0, max_a_ |-> 0,
   sieve_ |-> <<>>, count_ |-> <<>>, primes_last |-> primes_last,
   pi_size |-> pi_size]

\* PhiCache(x, a, primes, pi)
PhiCache_new(x, a0, primes_last, pi_size) ==
  LET cache == PhiCache_empty(primes_last, pi_size)
      a == a0 - min(a0, 30)
      max_a == min(a, 100)
      indexes == max_a - PhiTiny_max_a
      max_bytes == 16 * 1048576
      max_bytes_per_index == max_bytes \div indexes
      numbers_per_byte == 240 \div sizeof_sieve_t
      cache_limit == max_bytes_per_index * numbers_per_byte
      max_x == min(pow_1_2_3(x), cache_limit)
      max_x_size == ceil_div(max_x, 240)
  IN IF max_a <= PhiTiny_max_a THEN cache
     ELSE IF max_x_size < 8 THEN [cache EXCEPT !.max_x_size_ = max_x_size]
     ELSE [cache EXCEPT !.max_x_size_ = max_x_size,
                        !.max_x_ = max_x_size * 240 - 1,
                        !.max_a_ = max_a]

\* what a read of primes_[a + 1] behind the end of the vector may yield
OobValues == {0, 46340}

\* primes_[i]; a read behind the end of the vector yields oob
PhiCache_primes(cache, i, oob) == IF i <= cache.primes_last THEN primes(i) ELSE oob

is_pix(cache, x, a, oob) ==
  x < cache.pi_size /\ x < isquare(PhiCache_primes(cache, a + 1, oob))

is_cached(cache, x, a) ==
  x <= cache.max_x_ /\ a <= cache.max_a_cached_ /\ a > PhiTiny_max_a

\* count + popcnt64(bits & unset_larger_[x % 240]): the count of the window
\* of x and the set bits of that window up to x
phi_cache(cache, x, a) ==
  cache.count_[a][x \div 240 + 1]
  + Cardinality({n \in (240 * (x \div 240))..x : n \in cache.sieve_[a]})

\* the loop over a level with the count taken after the window's bits were
\* added, used to validate the checks
RECURSIVE init_cache_count_inclusive(_, _, _, _)
init_cache_count_inclusive(bits, size, j, count) ==
  IF j >= size THEN << >>
  ELSE LET c == count + Cardinality({n \in bits : n \div 240 = j})
       IN <<c>> \o init_cache_count_inclusive(bits, size, j + 1, c)

\* "for (auto& sieve : sieve_[i]) { sieve.count = count; count +=
\* popcnt64(sieve.bits); }" from window j on: yields the counts of the
\* windows j..size - 1 (they stay far below 2^32)
RECURSIVE init_cache_count(_, _, _, _)
init_cache_count(bits, size, j, count) ==
  IF j >= size THEN << >>
  ELSE <<count>>
       \o init_cache_count(bits, size, j + 1,
                           count + Cardinality({n \in bits : n \div 240 = j}))

\* the n of "for (n = prime * prime; n <= max_x_; n += prime * 2)"
init_cache_multiples(prime, max_x) ==
  {n \in (prime * prime)..max_x : (n - prime * prime) % (prime * 2) = 0}

\* init_cache moving sieve_[i - 1] into sieve_[i] for every i (the test
\* against max_a_ instead of PhiTiny::max_a()), so that only the last level
\* of the cache keeps its bits
RECURSIVE init_cache_loop_moved(_, _, _)
init_cache_loop_moved(cache, i, a) ==
  IF i > a THEN cache
  ELSE LET prime == primes(i)
           removed == init_cache_multiples(prime, cache.max_x_)
                        \cup (IF prime <= cache.max_x_ THEN {prime} ELSE {})
           from == cache.sieve_[i - 1]
           moved == IF i - 1 <= cache.max_a_
                    THEN [cache.sieve_ EXCEPT ![i - 1] = {}]
                    ELSE cache.sieve_
           bits == from \ removed
           counts == IF i > PhiTiny_max_a
                     THEN init_cache_count(bits, cache.max_x_size_, 0, 0)
                     ELSE cache.count_[i - 1]
       IN init_cache_loop_moved(
            [cache EXCEPT !.sieve_ = [moved EXCEPT ![i] = bits],
                          !.count_[i] = counts],
            i + 1, a)

RECURSIVE init_cache_loop(_, _, _)
init_cache_loop(cache, i, a) ==
  IF i > a THEN cache
  ELSE LET prime == primes(i)
           removed == init_cache_multiples(prime, cache.max_x_)
                        \cup (IF prime <= cache.max_x_ THEN {prime} ELSE {})
           from == cache.sieve_[i - 1]
           moved == IF i - 1 <= PhiTiny_max_a
                    THEN [cache.sieve_ EXCEPT ![i - 1] = {}]
                    ELSE cache.sieve_
           bits == from \ removed
           counts == IF i > PhiTiny_max_a
                     THEN init_cache_count(bits, cache.max_x_size_, 0, 0)
                     ELSE cache.count_[i - 1]
       IN init_cache_loop(
            [cache EXCEPT !.sieve_ = [moved EXCEPT ![i] = bits],
                          !.count_[i] = counts],
            i + 1, a)

init_cache(cache, a) ==
  LET first == cache.sieve_ = <<>>
      c0 == IF first
            THEN [cache EXCEPT
                    !.sieve_ = [j \in 0..cache.max_a_ |->
                      IF j = 3
                      THEN {n \in 0..cache.max_x_ :
                              n % 2 # 0 /\ n % 3 # 0 /\ n % 5 # 0}
                      ELSE {}],
                    !.count_ = [j \in 0..cache.max_a_ |->
                      IF j = 3
                      THEN [w \in 1..cache.max_x_size_ |-> 0]
                      ELSE << >>],
                    !.max_a_cached_ = 3]
            ELSE cache
  IN init_cache_loop([c0 EXCEPT !.max_a_cached_ = a], c0.max_a_cached_ + 1, a)

\* phi_1: sum += (a + 1 - i) * -SIGN.  top is the largest j of the reads
\* primes_[j] made by the call
PhiCache_phi_1(cache, SIGN, a, i, sum, top) ==
  [sum |-> sum + (a + 1 - i) * (0 - SIGN), cache |-> cache, top |-> top]

\* the second loop: every remaining term comes from the pi(x) table
RECURSIVE PhiCache_loop2(_, _, _, _, _, _, _, _)
PhiCache_loop2(cache, SIGN, x, a, sqrtx, i, sum, top) ==
  IF i > a THEN PhiCache_phi_1(cache, SIGN, a, i, sum, top)
  ELSE IF primes(i) > sqrtx
  THEN PhiCache_phi_1(cache, SIGN, a, i, sum, max(top, i))
  ELSE LET xp == x \div primes(i)
       IN PhiCache_loop2(cache, SIGN, x, a, sqrtx, i + 1,
                         sum + (pi(xp) - i + 2) * (0 - SIGN), max(top, i))

\* PhiCache::phi<SIGN>(x, a); yields [sum, cache, top].  is_pix(xp, i - 1)
\* reads primes_[i], and only when xp < pi_.size()
RECURSIVE PhiCache_phi(_, _, _, _, _)
RECURSIVE PhiCache_loop1(_, _, _, _, _, _, _, _, _)
RECURSIVE PhiCache_loop1_sub(_, _, _, _, _, _, _, _, _)
PhiCache_loop1(cache, SIGN, x, a, oob, sqrtx, i, sum, top) ==
  IF i > a THEN PhiCache_phi_1(cache, SIGN, a, i, sum, top)
  ELSE IF primes(i) > sqrtx
  THEN PhiCache_phi_1(cache, SIGN, a, i, sum, max(top, i))
  ELSE LET xp == x \div primes(i)
       IN IF is_pix(cache, xp, i - 1, oob)
          THEN PhiCache_loop2(cache, SIGN, x, a, sqrtx, i + 1,
                              sum + (pi(xp) - i + 2) * (0 - SIGN),
                              max(top, i))
          ELSE IF is_cached(cache, xp, i - 1)
          THEN PhiCache_loop1(cache, SIGN, x, a, oob, sqrtx, i + 1,
                              sum + phi_cache(cache, xp, i - 1) * (0 - SIGN),
                              max(top, i))
          ELSE PhiCache_loop1_sub(
                 PhiCache_phi(cache, 0 - SIGN, xp, i - 1, oob),
                 SIGN, x, a, oob, sqrtx, i, sum, top)

\* sum += phi<-SIGN>(xp, i - 1), and the next iteration
PhiCache_loop1_sub(sub, SIGN, x, a, oob, sqrtx, i, sum, top) ==
  PhiCache_loop1(sub.cache, SIGN, x, a, oob, sqrtx, i + 1, sum + sub.sum,
                 max(max(top, i), sub.top))

PhiCache_phi(cache, SIGN, x, a, oob) ==
  IF x <= primes(a) THEN [sum |-> SIGN, cache |-> cache, top |-> a]
  ELSE IF is_phi_tiny(a)
  THEN [sum |-> phi_tiny(x, a) * SIGN, cache |-> cache, top |-> a]
  ELSE LET top0 == IF x < cache.pi_size THEN a + 1 ELSE a
       IN IF is_pix(cache, x, a, oob)
          THEN [sum |-> (pi(x) - a + 1) * SIGN, cache |-> cache,
                top |-> top0]
          ELSE LET c1 == IF cache.max_a_cached_ < min(a, cache.max_a_)
                            /\ x <= cache.max_x_
                         THEN init_cache(cache, min(a, cache.max_a_))
                         ELSE cache
               IN IF is_cached(c1, x, a)
                  THEN [sum |-> phi_cache(c1, x, a) * SIGN, cache |-> c1,
                        top |-> top0]
                  ELSE LET c == PhiTiny_max_a
                           larger_c == max(c, min(c1.max_a_cached_, a))
                           start == is_cached(c1, x, larger_c)
                           sum == IF start
                                  THEN phi_cache(c1, x, larger_c) * SIGN
                                  ELSE phi_tiny(x, c) * SIGN
                       IN PhiCache_loop1(c1, SIGN, x, a, oob, isqrt(x),
                            (IF start THEN larger_c ELSE c) + 1, sum, top0)

(***************************************************************************)
(* phi.cpp: phi_pix, pix_upper, phi_OpenMP.                                *)
(***************************************************************************)
\* pi_noprint(x, threads)
pi_noprint(x) == pi(x)

\* phi_pix without the + 1 for the number 1
phi_pix_short(x, a) ==
  LET pix == pi_noprint(x) IN IF a <= pix THEN pix - a ELSE 1

phi_pix(x, a) ==
  LET pix == pi_noprint(x) IN IF a <= pix THEN pix - a + 1 ELSE 1

PiTable_max_cached == 15359

\* (int64_t) (x / (std::log(x) - 1.1)) + 10 above the cached pi(x) values
pix_upper(x) ==
  IF x <= PiTable_max_cached THEN pi(x)
  ELSE LET d == log_fix(x) - 1126
       IN (x \div d) * 1024 + ((x % d) * 1024) \div d + 10

\* the paths with the operands of "a > x / 2" exchanged
phi_OpenMP_path_swapped(x, a) ==
  IF x < 1 THEN "x < 1"
  ELSE IF a < 1 THEN "a < 1"
  ELSE IF x > 0 /\ x > a \div 2 THEN "a > x / 2"
  ELSE IF is_phi_tiny(a) THEN "phi_tiny"
  ELSE "PhiCache"

\* the paths with "a >= pi_sqrtx" at the second call of phi_pix, the test the
\* comment of phi_OpenMP warns against; used to validate the checks
phi_OpenMP_path_ge(x, a) ==
  IF x < 1 THEN "x < 1"
  ELSE IF a < 1 THEN "a < 1"
  ELSE IF x > 0 /\ a > x \div 2 THEN "a > x / 2"
  ELSE IF is_phi_tiny(a) THEN "phi_tiny"
  ELSE IF a >= pix_upper(x) THEN "a >= pix_upper(x)"
  ELSE IF a > pix_upper(isqrt(x)) THEN "phi_pix (pix_upper)"
  ELSE IF a >= pi(isqrt(x)) THEN "phi_pix (pi_sqrtx)"
  ELSE "PhiCache"

\* which return statement of phi_OpenMP is taken
phi_OpenMP_path(x, a) ==
  IF x < 1 THEN "x < 1"
  ELSE IF a < 1 THEN "a < 1"
  ELSE IF x > 0 /\ a > x \div 2 THEN "a > x / 2"
  ELSE IF is_phi_tiny(a) THEN "phi_tiny"
  ELSE IF a >= pix_upper(x) THEN "a >= pix_upper(x)"
  ELSE IF a > pix_upper(isqrt(x)) THEN "phi_pix (pix_upper)"
  ELSE IF a > pi(isqrt(x)) THEN "phi_pix (pi_sqrtx)"
  ELSE "PhiCache"

\* the loop "for (i = c + 1; i <= a; i++) sum += cache.phi<-1>(x / primes[i],
\* i - 1)" run by one thread on the indices lo..hi; yields [sum, cache, top]
RECURSIVE phi_OpenMP_loop(_, _, _, _, _, _)
RECURSIVE phi_OpenMP_loop_next(_, _, _, _, _, _)
phi_OpenMP_loop(cache, x, i, hi, sum, top) ==
  IF i > hi THEN [sum |-> sum, cache |-> cache, top |-> top]
  ELSE phi_OpenMP_loop_next(
         PhiCache_phi(cache, 0 - 1, x \div primes(i), i - 1, 0),
         x, i, hi, sum, top)

\* sum += the value of the call, and the next iteration
phi_OpenMP_loop_next(r, x, i, hi, sum, top) ==
  phi_OpenMP_loop(r.cache, x, i + 1, hi, sum + r.sum, max(top, r.top))

\* the part of phi_OpenMP that uses a PhiCache, with a team of one thread
phi_OpenMP_PhiCache(x, a) ==
  LET sqrtx == isqrt(x)
      c == min(PhiTiny_max_a, a)
      cache == PhiCache_new(x, a, a, sqrtx + 1)
  IN phi_OpenMP_loop(cache, x, c + 1, a, phi_tiny(x, c), 0)

\* phi_OpenMP(x, a, threads) with a team of one thread
phi_OpenMP(x, a) ==
  LET path == phi_OpenMP_path(x, a)
  IN CASE path = "x < 1" -> 0
       [] path = "a < 1" -> x
       [] path = "a > x / 2" -> 1
       [] path = "phi_tiny" -> phi_tiny(x, a)
       [] path = "a >= pix_upper(x)" -> 1
       [] path = "phi_pix (pix_upper)" -> phi_pix(x, a)
       [] path = "phi_pix (pi_sqrtx)" -> phi_pix(x, a)
       [] path = "PhiCache" -> phi_OpenMP_PhiCache(x, a).sum

\* phi(x, a, threads, is_print)
phi(x, a) == phi_OpenMP(x, a)

(***************************************************************************)
(* gourdon/AC.cpp: the A and C formulas.  The SegmentedPiTable is the      *)
(* window [low_, high_) of the pi(x) table; a lookup outside of the window *)
(* reads memory that is not part of the table and yields oob.              *)
(***************************************************************************)
SegmentedPiTable_at(win, n, oob) ==
  IF win.low_ <= n /\ n < win.high_ THEN pi(n) ELSE oob

SegmentedPiTable_new(limit, segment_size) ==
  [low_ |-> 0, high_ |-> min(segment_size, limit + 1),
   max_high_ |-> limit + 1, segment_size_ |-> segment_size]

SegmentedPiTable_finished(win) == win.low_ >= win.max_high_

SegmentedPiTable_next(win) ==
  [win EXCEPT !.low_ = win.high_,
              !.high_ = min(win.high_ + win.segment_size_, win.max_high_)]

\* the two loops of A: x / (p * q) >= y, then x / (p * q) < y
RECURSIVE A_loop(_, _, _, _, _, _, _, _)
A_loop(xp, y, i, max_i, win, oob, below_y, sum) ==
  IF i > max_i THEN sum
  ELSE LET xpq == xp \div primes(i)
           below == below_y \/ xpq < y
           term == SegmentedPiTable_at(win, xpq, oob)
       IN A_loop(xp, y, i + 1, max_i, win, oob, below,
                 sum + (IF below THEN term * 2 ELSE term))

A(x, y, b, max_a_prime, x_div_low, x_div_high, win, oob) ==
  LET prime == primes(b)
      xp == x \div prime
      min_2nd_prime == min(x_div_high \div prime, max_a_prime)
      i == max(pi(min_2nd_prime) + 1, b + 1)
      max_2nd_prime == min(x_div_low \div prime, isqrt(xp))
      max_i == pi(max_2nd_prime)
  IN A_loop(xp, y, i, max_i, win, oob, FALSE, 0)

\* C1<MU>(xp, b, i, pi_y, m, min_m, max_m, primes, pi): the loop from i + 1
RECURSIVE C1(_, _, _, _, _, _, _, _)
RECURSIVE C1_loop(_, _, _, _, _, _, _, _, _)
\* the loop of C1 with the recursive call keeping the sign, used to validate
\* the checks
RECURSIVE C1_loop_same_sign(_, _, _, _, _, _, _, _, _)
C1_loop_same_sign(MU, xp, b, i, pi_y, m, min_m, max_m, sum) ==
  IF i > pi_y THEN sum
  ELSE LET m64 == m * primes(i)
       IN IF m64 > max_m THEN sum
          ELSE LET leaf == IF m64 > min_m
                           THEN MU * (pi(xp \div m64) - b + 2) ELSE 0
                   sub == C1(MU, xp, b, i, pi_y, m64, min_m, max_m)
               IN C1_loop_same_sign(MU, xp, b, i + 1, pi_y, m, min_m, max_m,
                                    sum + leaf + sub)

C1_loop(MU, xp, b, i, pi_y, m, min_m, max_m, sum) ==
  IF i > pi_y THEN sum
  ELSE LET m64 == m * primes(i)
       IN IF m64 > max_m THEN sum
          ELSE LET leaf == IF m64 > min_m
                           THEN MU * (pi(xp \div m64) - b + 2) ELSE 0
                   sub == C1(0 - MU, xp, b, i, pi_y, m64, min_m, max_m)
               IN C1_loop(MU, xp, b, i + 1, pi_y, m, min_m, max_m,
                          sum + leaf + sub)

C1(MU, xp, b, i, pi_y, m, min_m, max_m) ==
  C1_loop(MU, xp, b, i + 1, pi_y, m, min_m, max_m, 0)

\* the pairs <<m64, MU>> for which C1<MU> executes "sum += MU * (...)", in
\* the order of the calls
RECURSIVE C1_leaves(_, _, _, _, _, _)
RECURSIVE C1_leaves_loop(_, _, _, _, _, _, _)
C1_leaves_loop(MU, i, pi_y, m, min_m, max_m, acc) ==
  IF i > pi_y THEN acc
  ELSE LET m64 == m * primes(i)
       IN IF m64 > max_m THEN acc
          ELSE LET leaf == IF m64 > min_m THEN << <<m64, MU>> >> ELSE << >>
                   sub == C1_leaves(0 - MU, i, pi_y, m64, min_m, max_m)
               IN C1_leaves_loop(MU, i + 1, pi_y, m, min_m, max_m,
                                 acc \o leaf \o sub)

C1_leaves(MU, i, pi_y, m, min_m, max_m) ==
  C1_leaves_loop(MU, i + 1, pi_y, m, min_m, max_m, << >>)

\* the arguments of the call C1<-1>(xp, b, b, pi_y, 1, min_m, max_m, ...) of
\* AC_OpenMP for one b
AC_C1_args(x, y, z, k, b) ==
  LET prime == primes(b)
      xp == x \div prime
      max_m == min(xp \div prime, z)
      min_m128 == max(x \div (prime * prime * prime), z \div prime)
      min_m == min(min_m128, max_m)
  IN [pc |-> "C1", x |-> x, y |-> y, z |-> z, k |-> k, b |-> b, xp |-> xp,
      pi_y |-> pi(y), min_m |-> min_m, max_m |-> max_m,
      sum |-> 0, leaves |-> << >>]

\* the b of the first loop of AC_OpenMP: min_b < b <= pi_sqrtz
AC_C1_range(x, z, k) ==
  (max(k, pi(iroot3(x \div z))) + 1)..pi(isqrt(z))

\* the clustered easy leaves of C2; yields <<i, sum>>
RECURSIVE C2_clustered(_, _, _, _, _, _, _)
C2_clustered(xp, b, i, pi_min_clustered, win, oob, sum) ==
  IF i > pi_min_clustered
  THEN LET xpq == xp \div primes(i)
           phi_xpq == SegmentedPiTable_at(win, xpq, oob) - b + 2
           xpq2 == xp \div primes(b + phi_xpq - 1)
           i2 == SegmentedPiTable_at(win, xpq2, oob)
       IN C2_clustered(xp, b, i2, pi_min_clustered, win, oob,
                       sum + phi_xpq * (i - i2))
  ELSE <<i, sum>>

\* what the iterations hi >= i >= lo of "for (; i > pi_min_m; i--)" add
RECURSIVE C2_sparse(_, _, _, _, _, _)
C2_sparse(xp, b, lo, hi, win, oob) ==
  IF lo > hi THEN 0
  ELSE IF lo = hi
  THEN SegmentedPiTable_at(win, xp \div primes(lo), oob) - b + 2
  ELSE LET mid == (lo + hi) \div 2
       IN C2_sparse(xp, b, mid + 1, hi, win, oob)
          + C2_sparse(xp, b, lo, mid, win, oob)

C2(x, y, b, x_div_low, x_div_high, win, oob) ==
  LET prime == primes(b)
      xp == x \div prime
      max_m == min3(x_div_low \div prime, xp \div prime, y)
      min_m128 == max3(x_div_high \div prime, x \div (prime * prime * prime),
                       prime)
      min_m == min(min_m128, max_m)
      i == pi(max_m)
      pi_min_m == pi(min_m)
      min_clustered == in_between(min_m, isqrt(xp), max_m)
      pi_min_clustered == pi(min_clustered)
      cl == C2_clustered(xp, b, i, pi_min_clustered, win, oob, 0)
  IN cl[2] + C2_sparse(xp, b, pi_min_m + 1, cl[1], win, oob)

\* get_x_star_gourdon(x, y)
get_x_star_gourdon(x, y) == max(iroot4(x), x \div (y * y))

\* the local variables of AC_OpenMP after the tables were built
AC_init(x, y, z, k, segment_size) ==
  LET x_star == get_x_star_gourdon(x, y)
  IN [x |-> x, y |-> y, z |-> z, k |-> k, x_star |-> x_star,
      max_a_prime |-> isqrt(x \div x_star),
      sum |-> 0,
      segmentedPi |-> SegmentedPiTable_new(isqrt(x), segment_size),
      pc |-> "C1"]

\* the first loop: sum -= C1<-1>(...) for min_b < b <= pi_sqrtz
RECURSIVE AC_C1_loop(_, _, _, _)
AC_C1_loop(st, b, pi_sqrtz, sum) ==
  IF b > pi_sqrtz THEN sum
  ELSE LET prime == primes(b)
           xp == st.x \div prime
           max_m == min(xp \div prime, st.z)
           min_m128 == max(st.x \div (prime * prime * prime), st.z \div prime)
           min_m == min(min_m128, max_m)
       IN AC_C1_loop(st, b + 1, pi_sqrtz,
            sum - C1(0 - 1, xp, b, b, pi(st.y), 1, min_m, max_m))

AC_C1(st) ==
  LET pi_sqrtz == pi(isqrt(st.z))
      pi_root3_xz == pi(iroot3(st.x \div st.z))
      min_b == max(st.k, pi_root3_xz)
  IN [st EXCEPT !.sum = AC_C1_loop(st, min_b + 1, pi_sqrtz, st.sum),
                !.pc = IF SegmentedPiTable_finished(st.segmentedPi)
                       THEN "done" ELSE "segment"]

\* for (b = min_b + 1; b <= max_b; b++) sum += C2(...) or A(...)
\* (what the iterations lo <= b <= hi add to sum)
RECURSIVE AC_segment_loop(_, _, _, _, _, _, _)
AC_segment_loop(st, lo, hi, pi_x_star, x_div_low, x_div_high, oob) ==
  IF lo > hi THEN 0
  ELSE IF lo = hi
  THEN IF lo <= pi_x_star
       THEN C2(st.x, st.y, lo, x_div_low, x_div_high, st.segmentedPi, oob)
       ELSE A(st.x, st.y, lo, st.max_a_prime, x_div_low, x_div_high,
              st.segmentedPi, oob)
  ELSE LET mid == (lo + hi) \div 2
       IN AC_segment_loop(st, lo, mid, pi_x_star, x_div_low, x_div_high, oob)
          + AC_segment_loop(st, mid + 1, hi, pi_x_star, x_div_low, x_div_high,
                            oob)

\* n is an argument the window answers: low <= n < high
SegmentedPiTable_in_window(win, n) == win.low_ <= n /\ n < win.high_

\* the arguments of the segmentedPi[...] lookups of A
A_lookups(x, b, max_a_prime, x_div_low, x_div_high) ==
  LET prime == primes(b)
      xp == x \div prime
      min_2nd_prime == min(x_div_high \div prime, max_a_prime)
      i == max(pi(min_2nd_prime) + 1, b + 1)
      max_2nd_prime == min(x_div_low \div prime, isqrt(xp))
      max_i == pi(max_2nd_prime)
  IN {xp \div primes(j) : j \in i..max_i}

\* the arguments of the segmentedPi[...] lookups of the clustered loop of C2,
\* up to and including the first one outside the window
RECURSIVE C2_clustered_lookups(_, _, _, _, _)
C2_clustered_lookups(xp, b, i, pi_min_clustered, win) ==
  IF i > pi_min_clustered
  THEN LET xpq == xp \div primes(i)
           phi_xpq == pi(xpq) - b + 2
           xpq2 == xp \div primes(b + phi_xpq - 1)
       IN IF ~SegmentedPiTable_in_window(win, xpq) THEN {xpq}
          ELSE IF ~SegmentedPiTable_in_window(win, xpq2) THEN {xpq, xpq2}
          ELSE {xpq, xpq2}
               \cup C2_clustered_lookups(xp, b, pi(xpq2), pi_min_clustered,
                                         win)
  ELSE {}

\* the arguments of the segmentedPi[...] lookups of C2; those of the sparse
\* loop are known when the clustered loop stayed inside the window
C2_lookups(x, y, b, x_div_low, x_div_high, win) ==
  LET prime == primes(b)
      xp == x \div prime
      max_m == min3(x_div_low \div prime, xp \div prime, y)
      min_m128 == max3(x_div_high \div prime, x \div (prime * prime * prime),
                       prime)
      min_m == min(min_m128, max_m)
      pi_min_m == pi(min_m)
      min_clustered == in_between(min_m, isqrt(xp), max_m)
      pi_min_clustered == pi(min_clustered)
      cl == C2_clustered_lookups(xp, b, pi(max_m), pi_min_clustered, win)
  IN IF \A n \in cl : SegmentedPiTable_in_window(win, n)
     THEN cl \cup {xp \div primes(j) :
                     j \in (pi_min_m + 1)..
                           C2_clustered(xp, b, pi(max_m), pi_min_clustered,
                                        win, 0, 0)[1]}
     ELSE cl

\* every step of the clustered loop of C2 is the step of S2_easy: it moves i
\* to pi[max(xpq2, min_clustered)], not below pi_min_clustered, and the
\* indices it leaves behind, those in (i2, i], all have the phi it adds
RECURSIVE C2_clustered_as_S2_easy(_, _, _, _, _, _, _)
C2_clustered_as_S2_easy(xp, b, i, min_clustered, pi_min_clustered, win, oob) ==
  IF i > pi_min_clustered
  THEN LET xpq == xp \div primes(i)
           phi_xpq == SegmentedPiTable_at(win, xpq, oob) - b + 2
           xpq2 == xp \div primes(b + phi_xpq - 1)
           i2 == SegmentedPiTable_at(win, xpq2, oob)
       IN /\ i2 = pi(max(xpq2, min_clustered))
          /\ pi_min_clustered <= i2 /\ i2 < i
          /\ \A j \in (i2 + 1)..i : pi(xp \div primes(j)) - b + 2 = phi_xpq
          /\ C2_clustered_as_S2_easy(xp, b, i2, min_clustered,
                                     pi_min_clustered, win, oob)
  ELSE TRUE

\* the clustered loop of one call of C2
C2_as_S2_easy(x, y, b, x_div_low, x_div_high, win, oob) ==
  LET prime == primes(b)
      xp == x \div prime
      max_m == min3(x_div_low \div prime, xp \div prime, y)
      min_m128 == max3(x_div_high \div prime, x \div (prime * prime * prime),
                       prime)
      min_m == min(min_m128, max_m)
      min_clustered == in_between(min_m, isqrt(xp), max_m)
  IN C2_clustered_as_S2_easy(xp, b, pi(max_m), min_clustered,
                             pi(min_clustered), win, oob)

\* the bounds of one iteration of the segment loop: x / low, x / high and
\* the range min_b < b <= max_b
AC_segment_bounds(st) ==
  LET low == max(st.segmentedPi.low_, 1)
      high == st.segmentedPi.high_
      x_div_low == st.x \div low
      x_div_high == st.x \div high
      pi_sqrtz == pi(isqrt(st.z))
      pi_x_star == pi(st.x_star)
      x13 == iroot3(st.x)
      pi_root3_xy == pi(iroot3(st.x \div st.y))
      min_prime1 == min(isqrt(low), primes(pi_x_star))
      min_prime2 == min(x_div_high \div st.y, primes(pi_x_star))
      min_b0 == max(max(max3(st.k, pi_sqrtz, pi_root3_xy), pi(min_prime1)),
                    pi(min_prime2))
      sqrt_low == min(isqrt(x_div_low), x13)
      max_b0 == pi(sqrt_low)
      primes_size == pi(max(st.max_a_prime, st.y)) + 1
      max_b1 == IF max_b0 + 1 < primes_size
                   /\ primes(max_b0) * primes(max_b0 + 1) > x_div_low
                THEN max_b0 - 1 ELSE max_b0
  IN [x_div_low |-> x_div_low, x_div_high |-> x_div_high,
      pi_x_star |-> pi_x_star,
      min_b |-> min(min_b0, pi_x_star + 1),
      max_b |-> max(max_b1, pi_x_star)]

\* one iteration of the segment loop, and segmentedPi.next()
AC_segment(st, oob) ==
  LET bd == AC_segment_bounds(st)
      next == SegmentedPiTable_next(st.segmentedPi)
  IN [st EXCEPT !.sum = @ + AC_segment_loop(st, bd.min_b + 1, bd.max_b,
                                            bd.pi_x_star, bd.x_div_low,
                                            bd.x_div_high, oob),
                !.segmentedPi = next,
                !.pc = IF SegmentedPiTable_finished(next)
                       THEN "done" ELSE "segment"]

\* the arguments of the segmentedPi[...] lookups of one iteration of the
\* segment loop
AC_segment_lookups(st) ==
  LET bd == AC_segment_bounds(st)
  IN UNION {IF b <= bd.pi_x_star
            THEN C2_lookups(st.x, st.y, b, bd.x_div_low, bd.x_div_high,
                            st.segmentedPi)
            ELSE A_lookups(st.x, b, st.max_a_prime, bd.x_div_low,
                           bd.x_div_high) :
            b \in (bd.min_b + 1)..bd.max_b}

RECURSIVE AC_run(_, _)
AC_run(st, oob) ==
  CASE st.pc = "done" -> st
    [] st.pc = "C1" -> AC_run(AC_C1(st), oob)
    [] st.pc = "segment" -> AC_run(AC_segment(st, oob), oob)

\* AC(x, y, z, k, threads) for a SegmentedPiTable of the given segment size
AC(x, y, z, k, segment_size, oob) ==
  AC_run(AC_init(x, y, z, k, segment_size), oob).sum

(***************************************************************************)
(* The state of the model.  Each specification below runs one part of the  *)
(* program and leaves the variables of the other parts alone:              *)
(*   entry   a call of pi_deleglise_rivat1 or pi_deleglise_rivat4          *)
(*   s2      a call of S2 of pi_deleglise_rivat1.cpp                       *)
(***************************************************************************)
VARIABLES
  entry,   \* a call of pi_deleglise_rivat1 or pi_deleglise_rivat4
  s2,      \* a call of S2 (pi_deleglise_rivat1.cpp)
  ph,      \* a call of phi(x, a, threads)
  pcache,  \* one PhiCache object and the calls made on it
  omp,     \* the parallel region of phi_OpenMP
  fai,     \* a team of threads in for_atomic_inc
  ac       \* a call of AC_OpenMP

vars == <<entry, s2, ph, pcache, omp, fai, ac>>

Idle == [pc |-> "idle"]

(***************************************************************************)
(* SpecPi: the prime counting entry points.                                *)
(***************************************************************************)
\* inputs between MaxSmallX and primecount_max
PiSamples == {12167, 50000, primecount_max}

PiCalls ==
  ({"pi_deleglise_rivat1", "pi_deleglise_rivat4"}
     \X (((0 - MaxNegX)..MaxSmallX) \cup PiSamples))
  \cup ({"pi_deleglise_rivat4"}
     \X ((primecount_max + 1)..(primecount_max + MaxOver)))

InitPi ==
  /\ entry \in {[fn |-> call[1], x |-> call[2], pc |-> "call", result |-> 0,
                 tables |-> FALSE, y |-> 0, z |-> 0, c |-> 0, p2 |-> 0,
                 pi_y |-> 0, s1 |-> 0, s2 |-> 0] : call \in PiCalls}
  /\ s2 = Idle /\ ph = Idle /\ pcache = Idle /\ omp = Idle /\ fai = Idle
  /\ ac = Idle

\* pi_deleglise_rivat1: the guard
DR1Enter ==
  /\ entry.pc = "call" /\ entry.fn = "pi_deleglise_rivat1"
  /\ entry' = IF DR1_guard(entry.x) = "return 0"
              THEN [entry EXCEPT !.pc = "returned", !.result = 0]
              ELSE [entry EXCEPT !.pc = "alpha"]
  /\ UNCHANGED <<s2, ph, pcache, omp, fai, ac>>

\* pi_deleglise_rivat4: the two guards
DR4Enter ==
  /\ entry.pc = "call" /\ entry.fn = "pi_deleglise_rivat4"
  /\ entry' = CASE DR4_guard(entry.x) = "return 0" ->
                     [entry EXCEPT !.pc = "returned", !.result = 0]
                [] DR4_guard(entry.x) = "throw" ->
                     [entry EXCEPT !.pc = "thrown"]
                [] DR4_guard(entry.x) = "compute" ->
                     [entry EXCEPT !.pc = "alpha"]
  /\ UNCHANGED <<s2, ph, pcache, omp, fai, ac>>

\* alpha = compute_alpha(x); y = alpha * iroot<3>(x); z = x / y
PiAlpha ==
  /\ entry.pc = "alpha"
  /\ LET y == IF entry.fn = "pi_deleglise_rivat1" THEN DR1_y(entry.x)
                                                  ELSE DR4_y(entry.x)
     IN entry' = [entry EXCEPT !.y = y, !.z = entry.x \div y, !.pc = "P2"]
  /\ UNCHANGED <<s2, ph, pcache, omp, fai, ac>>

\* p2 = P2(x, y, threads)
PiP2 ==
  /\ entry.pc = "P2"
  /\ entry' = [entry EXCEPT !.p2 = P2(entry.x, entry.y), !.pc = "tables"]
  /\ UNCHANGED <<s2, ph, pcache, omp, fai, ac>>

\* the tables of primes, mu, lpf (the FactorTable) and pi; pi_y = pi[y];
\* c = PhiTiny::get_c(y)
PiTables ==
  /\ entry.pc = "tables"
  /\ entry' = [entry EXCEPT !.tables = TRUE, !.pi_y = pi(entry.y),
                            !.c = min(pi(entry.y), PhiTiny_max_a),
                            !.pc = "S1"]
  /\ UNCHANGED <<s2, ph, pcache, omp, fai, ac>>

\* s1 = S1(x, y, c, threads)
PiS1 ==
  /\ entry.pc = "S1"
  /\ entry' = [entry EXCEPT !.s1 = S1(entry.x, entry.y, entry.c), !.pc = "S2"]
  /\ UNCHANGED <<s2, ph, pcache, omp, fai, ac>>

\* pi_deleglise_rivat1: s2 = S2(x, y, z, c, primes, lpf, mu)
DR1S2 ==
  /\ entry.pc = "S2" /\ entry.fn = "pi_deleglise_rivat1"
  /\ entry' = [entry EXCEPT !.s2 = S2(entry.x, entry.y, entry.z, entry.c),
                            !.pc = "sum"]
  /\ UNCHANGED <<s2, ph, pcache, omp, fai, ac>>

\* pi_deleglise_rivat4: s2 = S2(x, y, z, c, primes, factor_table)
DR4S2 ==
  /\ entry.pc = "S2" /\ entry.fn = "pi_deleglise_rivat4"
  /\ entry' = [entry EXCEPT !.s2 = DR4_S2(entry.x, entry.y, entry.z, entry.c),
                            !.pc = "sum"]
  /\ UNCHANGED <<s2, ph, pcache, omp, fai, ac>>

\* phi = s1 + s2; sum = phi + pi_y - 1 - p2; return sum
PiReturn ==
  /\ entry.pc = "sum"
  /\ entry' = [entry EXCEPT !.result = (entry.s1 + entry.s2) + entry.pi_y - 1
                                       - entry.p2,
                            !.pc = "returned"]
  /\ UNCHANGED <<s2, ph, pcache, omp, fai, ac>>

NextPi ==
  \/ DR1Enter \/ DR4Enter \/ PiAlpha \/ PiP2 \/ PiTables \/ PiS1
  \/ DR1S2 \/ DR4S2 \/ PiReturn

SpecPi == InitPi /\ [][NextPi]_vars

C4_NegativeThrows ==
  (entry.pc \notin {"idle", "call"} /\ entry.x < 0) => entry.pc = "thrown"

\* C4 amended: a call with a negative x returns 0 (the x < 2 guard); it never
\* ends in an error, and nothing is computed for it.
C4_NegativeReturnsZero ==
  (entry.pc \notin {"idle", "call"} /\ entry.x < 0) =>
    /\ entry.pc = "returned" /\ entry.result = 0
    /\ ~entry.tables

\* both entry points have returned for a negative x
C4_Witness ==
  entry.pc = "returned" /\ entry.x = 0 - MaxNegX

\* C5: pi_deleglise_rivat4(x) throws for every x above the supported maximum,
\* before any table or partial sum is computed, and throws for no x in
\* 0..supported maximum.
C5_ThrowsAboveMax ==
  (entry.pc \notin {"idle", "call"} /\ entry.fn = "pi_deleglise_rivat4") =>
    /\ entry.x > primecount_max =>
         /\ entry.pc = "thrown" /\ ~entry.tables
         /\ entry.p2 = 0 /\ entry.s1 = 0 /\ entry.s2 = 0 /\ entry.y = 0
    /\ (0 <= entry.x /\ entry.x <= primecount_max) => entry.pc # "thrown"

\* the call with x = supported maximum + 1 has thrown
C5_Witness ==
  /\ entry.pc = "thrown" /\ entry.fn = "pi_deleglise_rivat4"
  /\ entry.x = primecount_max + 1

(***************************************************************************)
(* SpecS2: S2 of pi_deleglise_rivat1.cpp, one step per loop iteration of   *)
(* S2_sieve.                                                               *)
(***************************************************************************)
\* x with y as pi_deleglise_rivat1 chooses it, and one pair with a larger
\* alpha <= x^(1/6), for which S2_sieve has leaves with b <= pi_sqrty
S2Samples == {12167, primecount_max}

S2Inputs ==
  {<<x, DR1_y(x)>> : x \in (2..MaxS2X) \cup S2Samples}
  \cup {<<primecount_max, 361>>}

S2_init(x, y) ==
  LET z == x \div y
      c == min(pi(y), PhiTiny_max_a)
  IN [x |-> x, y |-> y, z |-> z, c |-> c, pc |-> "S2_trivial", S2_total |-> 0,
      trivial |-> 0, easy |-> 0, sieve |-> S2_sieve_init(x, y, z, c)]

InitS2 ==
  /\ s2 \in {S2_init(in[1], in[2]) : in \in S2Inputs}
  /\ entry = Idle /\ ph = Idle /\ pcache = Idle /\ omp = Idle /\ fai = Idle
  /\ ac = Idle

\* S2_total += S2_trivial(x, y, z, c, pi, primes)
S2Trivial ==
  /\ s2.pc = "S2_trivial"
  /\ LET r == S2_trivial(s2.x, s2.y, s2.z, s2.c)
     IN s2' = [s2 EXCEPT !.trivial = r, !.S2_total = @ + r, !.pc = "S2_easy"]
  /\ UNCHANGED <<entry, ph, pcache, omp, fai, ac>>

\* S2_total += S2_easy(x, y, z, c, pi, primes)
S2Easy ==
  /\ s2.pc = "S2_easy"
  /\ LET r == S2_easy(s2.x, s2.y, s2.z, s2.c)
     IN s2' = [s2 EXCEPT !.easy = r, !.S2_total = @ + r, !.pc = "S2_sieve"]
  /\ UNCHANGED <<entry, ph, pcache, omp, fai, ac>>

\* S2_sieve: sieve.fill, the first c primes, cnt_finit
S2SieveFill ==
  /\ s2.pc = "S2_sieve" /\ s2.sieve.pc = "fill"
  /\ s2' = [s2 EXCEPT !.sieve = S2_sieve_fill(@)]
  /\ UNCHANGED <<entry, ph, pcache, omp, fai, ac>>

\* S2_sieve: one b <= pi_sqrty
S2SieveRangeA ==
  /\ s2.pc = "S2_sieve" /\ s2.sieve.pc = "rangeA"
  /\ s2' = [s2 EXCEPT !.sieve = S2_sieve_rangeA(@)]
  /\ UNCHANGED <<entry, ph, pcache, omp, fai, ac>>

\* S2_sieve: one b with pi_sqrty < b <= pi_sqrtz
S2SieveRangeB ==
  /\ s2.pc = "S2_sieve" /\ s2.sieve.pc = "rangeB"
  /\ s2' = [s2 EXCEPT !.sieve = S2_sieve_rangeB(@)]
  /\ UNCHANGED <<entry, ph, pcache, omp, fai, ac>>

\* S2_sieve: next_segment
S2SieveNextSegment ==
  /\ s2.pc = "S2_sieve" /\ s2.sieve.pc = "next_segment"
  /\ s2' = [s2 EXCEPT !.sieve = S2_sieve_next_segment(@)]
  /\ UNCHANGED <<entry, ph, pcache, omp, fai, ac>>

\* S2_total += S2_sieve(...); return S2_total
S2Return ==
  /\ s2.pc = "S2_sieve" /\ s2.sieve.pc = "done"
  /\ s2' = [s2 EXCEPT !.S2_total = @ + s2.sieve.S2_result, !.pc = "done"]
  /\ UNCHANGED <<entry, ph, pcache, omp, fai, ac>>

NextS2 ==
  \/ S2Trivial \/ S2Easy
  \/ S2SieveFill \/ S2SieveRangeA \/ S2SieveRangeB \/ S2SieveNextSegment
  \/ S2Return

SpecS2 == InitS2 /\ [][NextS2]_vars

S2_sieve_at_b ==
  s2.pc = "S2_sieve" /\ s2.sieve.pc \in {"rangeA", "rangeB", "next_segment"}

\* C11: at every cnt_query of S2_sieve, after cnt_finit and any number of
\* cross_off calls, cnt_query(counters, i) is the number of set bits at the
\* sieve positions 0..i of the current segment.
C11_CountersAgree ==
  S2_sieve_at_b =>
    \A i \in 0..(s2.sieve.segment_size - 1) :
      cnt_query(s2.sieve.counters, i)
        = Cardinality({j \in s2.sieve.sieve : j <= i})

\* a b is reached after the cross_off of an earlier b of this segment cleared
\* a bit that the fill and the first c primes had left set
C11_Witness ==
  /\ s2.pc = "S2_sieve" /\ s2.sieve.pc = "rangeB"
  /\ s2.sieve.b > s2.sieve.c + 1
  /\ \E j \in 0..(s2.sieve.segment_size - 1) :
       /\ s2.sieve.low + j < S2_sieve_high(s2.sieve)
       /\ j \notin s2.sieve.sieve
       /\ \A i \in 1..s2.sieve.c : (s2.sieve.low + j) % primes(i) # 0

\* "if (prime >= max_m) goto next_segment" and
\* "if (prime >= primes[l]) goto next_segment" for the current b
S2_sieve_goto_next_segment(st) ==
  LET prime == primes(st.b)
  IN IF st.pc = "rangeA"
     THEN prime >= min(st.x \div (prime * st.low), st.y)
     ELSE prime >= primes(pi(min3(st.x \div (prime * st.low),
                                  st.z \div prime, st.y)))

\* index b is processed in the current segment: its loop body has been
\* entered and does not leave the segment
S2_sieve_processes_b ==
  /\ s2.pc = "S2_sieve" /\ s2.sieve.pc \in {"rangeA", "rangeB"}
  /\ ~S2_sieve_goto_next_segment(s2.sieve)

\* C12: whenever index b starts being processed in a segment [low, high),
\* phi[b] is the number of integers in [1, low) that survive after removing
\* the multiples of primes[1..b].
C12_PhiIsCountBelowLow ==
  S2_sieve_processes_b =>
    s2.sieve.phi[s2.sieve.b] = PhiRef(s2.sieve.low - 1, s2.sieve.b)

\* C12 as the code has it: phi[b] counts the integers in [1, low) left after
\* removing the multiples of primes[1..b-1]; the multiples of primes[b] are
\* crossed off only after phi[b] was increased.
C12_PhiIsCountBelowLowPrev ==
  S2_sieve_processes_b =>
    s2.sieve.phi[s2.sieve.b] = PhiRef(s2.sieve.low - 1, s2.sieve.b - 1)

\* a b > c is reached in a segment that starts above primes[b]
C12_Witness ==
  /\ S2_sieve_processes_b
  /\ s2.sieve.b > s2.sieve.c
  /\ s2.sieve.low > primes(s2.sieve.b)
  /\ s2.sieve.phi[s2.sieve.b] > 0

\* C14: every cnt_query made for a leaf n of S2_sieve has
\* low <= floor(x / n) < high, so its index lies in [0, segment_size); every
\* pi[] lookup of S2_trivial, S2_easy and S2_sieve has an index in [0, y].
C14_LookupsInRange ==
  /\ s2.pc = "S2_trivial" =>
       S2_trivial_pi_lookups(s2.x, s2.y, s2.z, s2.c) \subseteq 0..s2.y
  /\ s2.pc = "S2_easy" =>
       S2_easy_pi_lookups(s2.x, s2.y, s2.z, s2.c) \subseteq 0..s2.y
  /\ (s2.pc = "S2_sieve" /\ s2.sieve.pc \in {"rangeA", "rangeB"}) =>
       /\ S2_sieve_pi_lookups(s2.sieve) \subseteq 0..s2.y
       /\ \A xn \in S2_sieve_leaf_xn(s2.sieve) :
            /\ s2.sieve.low <= xn /\ xn < S2_sieve_high(s2.sieve)
            /\ xn - s2.sieve.low \in 0..(s2.sieve.segment_size - 1)

\* a b of S2_sieve has leaves with distinct floor(x / n) in a later segment
C14_Witness ==
  /\ s2.pc = "S2_sieve" /\ s2.sieve.pc \in {"rangeA", "rangeB"}
  /\ s2.sieve.low > 1
  /\ Cardinality(S2_sieve_leaf_xn(s2.sieve)) >= 2

\* the first odd multiple of prime that is >= n
first_odd_multiple(prime, n) ==
  LET q == (n + prime - 1) \div prime
  IN IF q % 2 = 1 THEN q * prime ELSE (q + 1) * prime

\* the lows of the segments before the current one
S2_sieve_earlier_lows(st) ==
  {1 + j * st.segment_size : j \in 0..((st.low - 1) \div st.segment_size - 1)}

\* C15: whenever the pre-sieve loop or cross_off runs for an index b in a
\* segment [low, high), next[b] on entry is an odd multiple of primes[b] that
\* is >= low, and on exit it is the first odd multiple of primes[b] that is
\* >= high; an index that is processed in a segment has not been skipped by
\* a 'goto next_segment' at an index <= b in any earlier segment.
C15_NextMultiple ==
  s2.pc = "S2_sieve" =>
    LET st == s2.sieve
        high == S2_sieve_high(st)
        IsOddMultiple(k, prime) == k % prime = 0 /\ (k \div prime) % 2 = 1
    IN \* entry of the pre-sieve loop
       /\ st.pc = "fill" =>
            \A b \in 2..st.c :
              IsOddMultiple(st.next[b], primes(b)) /\ st.next[b] >= st.low
       \* entry of cross_off
       /\ (st.pc \in {"rangeA", "rangeB"} /\ ~S2_sieve_goto_next_segment(st)) =>
            /\ IsOddMultiple(st.next[st.b], primes(st.b))
            /\ st.next[st.b] >= st.low
            /\ \A low0 \in S2_sieve_earlier_lows(st) :
                 \A b \in (st.c + 1)..st.b :
                   b >= 2 =>
                     ~S2_sieve_goto_next_segment(
                        [st EXCEPT !.low = low0, !.b = b,
                                   !.pc = S2_sieve_pc(st, b)])
       \* exit of the pre-sieve loop and of cross_off
       /\ st.pc \in {"rangeA", "rangeB", "next_segment"} =>
            \A b \in 2..(st.b - 1) :
              st.next[b] = first_odd_multiple(primes(b), high)

\* a segment after the first is left by 'goto next_segment' at an index
\* after some index had its multiples crossed off in it
C15_Witness ==
  /\ s2.pc = "S2_sieve" /\ s2.sieve.pc = "next_segment"
  /\ s2.sieve.low > 1
  /\ s2.sieve.b <= S2_sieve_pi_sqrtz(s2.sieve)
  /\ s2.sieve.b > s2.sieve.c + 1
  /\ s2.sieve.next[s2.sieve.b - 1] > 3 * primes(s2.sieve.b - 1)

(***************************************************************************)
(* SpecSieve: the segmented sieves of both files, b by b: the runs of S2   *)
(* of pi_deleglise_rivat1.cpp of SpecS2, and runs of S2 of                 *)
(* pi_deleglise_rivat4.cpp with y, z and c as pi_deleglise_rivat4 chooses. *)
(***************************************************************************)
S4Inputs ==
  {<<x, DR4_y(x)>> : x \in (2..MaxS2X) \cup S2Samples}
  \cup {<<primecount_max, 361>>}

InitS4 ==
  /\ s2 \in {[pc |-> "DR4_S2",
               sieve |-> DR4_S2_init(in[1], in[2], in[1] \div in[2],
                                     min(pi(in[2]), PhiTiny_max_a))]
              : in \in S4Inputs}
  /\ entry = Idle /\ ph = Idle /\ pcache = Idle /\ omp = Idle /\ fai = Idle
  /\ ac = Idle

\* b = c + 1; sieve.memset(low), the first c primes, cnt_finit
DR4S2Fill ==
  /\ s2.pc = "DR4_S2" /\ s2.sieve.pc = "fill"
  /\ s2' = [s2 EXCEPT !.sieve = DR4_S2_fill(@)]
  /\ UNCHANGED <<entry, ph, pcache, omp, fai, ac>>

\* one b <= pi_sqrty
DR4S2RangeA ==
  /\ s2.pc = "DR4_S2" /\ s2.sieve.pc = "rangeA"
  /\ s2' = [s2 EXCEPT !.sieve = DR4_S2_rangeA(@)]
  /\ UNCHANGED <<entry, ph, pcache, omp, fai, ac>>

\* one b with pi_sqrty < b < pi_y
DR4S2RangeB ==
  /\ s2.pc = "DR4_S2" /\ s2.sieve.pc = "rangeB"
  /\ s2' = [s2 EXCEPT !.sieve = DR4_S2_rangeB(@)]
  /\ UNCHANGED <<entry, ph, pcache, omp, fai, ac>>

\* next_segment
DR4S2NextSegment ==
  /\ s2.pc = "DR4_S2" /\ s2.sieve.pc = "next_segment"
  /\ s2' = [s2 EXCEPT !.sieve = S2_sieve_next_segment(@)]
  /\ UNCHANGED <<entry, ph, pcache, omp, fai, ac>>

\* return S2_result
DR4S2Return ==
  /\ s2.pc = "DR4_S2" /\ s2.sieve.pc = "done"
  /\ s2' = [s2 EXCEPT !.pc = "done"]
  /\ UNCHANGED <<entry, ph, pcache, omp, fai, ac>>

NextS4 ==
  \/ DR4S2Fill \/ DR4S2RangeA \/ DR4S2RangeB \/ DR4S2NextSegment
  \/ DR4S2Return

InitSieve == InitS2 \/ InitS4

NextSieve == NextS2 \/ NextS4

SpecSieve == InitSieve /\ [][NextSieve]_vars

\* "if (prime >= max_m) goto next_segment" and
\* "if (prime >= primes[l]) goto next_segment" of pi_deleglise_rivat4.cpp
DR4_S2_goto_next_segment(st) ==
  LET prime == primes(st.b)
  IN IF st.pc = "rangeA"
     THEN prime >= min(st.x \div (prime * st.low), st.y)
     ELSE prime >= primes(pi(min(st.x \div (prime * st.low), st.y)))

\* index b <= pi_sqrtz is processed in the current segment of the sieve of
\* pi_deleglise_rivat4.cpp
DR4_S2_processes_b ==
  /\ s2.pc = "DR4_S2" /\ s2.sieve.pc \in {"rangeA", "rangeB"}
  /\ s2.sieve.b <= S2_sieve_pi_sqrtz(s2.sieve)
  /\ ~DR4_S2_goto_next_segment(s2.sieve)

\* C13: when index b (c < b <= pi(sqrt(z))) is processed in the segment
\* [low, high), after the cross_off of the primes with an index < b and before
\* that of p_b, phi[b] + cnt_query(counters, k - low) = phi(k, b - 1) for every
\* k in [low, high).
C13_PhiPlusCountIsPhi ==
  (S2_sieve_processes_b \/ DR4_S2_processes_b) =>
    LET st == s2.sieve
    IN /\ st.c < st.b /\ st.b <= S2_sieve_pi_sqrtz(st)
       /\ \A k \in st.low..(S2_sieve_high(st) - 1) :
            st.phi[st.b] + cnt_query(st.counters, k - st.low)
              = PhiRef(k, st.b - 1)

\* the sieve of pi_deleglise_rivat4.cpp processes a b in a later segment,
\* after the cross_off of an earlier b
C13_Witness ==
  /\ DR4_S2_processes_b
  /\ s2.sieve.b > s2.sieve.c + 1 /\ s2.sieve.low > s2.sieve.segment_size
  /\ s2.sieve.phi[s2.sieve.b] > 0

\* the clustered loop started at bd.l decreases l in every iteration, not
\* below b, and reads primes[] at an index <= l; the sparse loop after it
\* visits only l with primes[l] > primes[b] and stops at an l >= b
S2_easy_loops_ok(x, b, bd) ==
  LET steps == S2_easy_clustered_steps(x, b, bd.min_clustered_easy_leaf, bd.l)
      l_end == IF steps = << >> THEN bd.l ELSE steps[Len(steps)][3]
      stop == sparse_end(l_end, bd.min_sparse_easy_leaf)
  IN /\ \A j \in 1..Len(steps) :
          /\ b <= steps[j][3] /\ steps[j][3] < steps[j][1]
          /\ steps[j][2] <= steps[j][1]
     /\ \A l \in (stop + 1)..l_end : primes(l) > primes(b)
     /\ stop >= b \/ l_end < b

\* C21: in the clustered loop of S2_easy and of S2 of pi_deleglise_rivat4.cpp
\* every iteration replaces l by an l2 with b <= l2 < l, and the index
\* b + phi_xn - 1 of the read of primes[] is at most l; the sparse loop after
\* it visits only l with primes[l] > primes[b] and stops before l reaches b.
C21_EasyLoopsTerminate ==
  /\ s2.pc = "S2_easy" =>
       \A b \in (max(s2.c, pi(isqrt(s2.y))) + 1)..pi(iroot3(s2.x)) :
         S2_easy_loops_ok(s2.x, b, S2_easy_b_bounds(s2.x, s2.y, s2.z, b))
  /\ (s2.pc = "DR4_S2" /\ s2.sieve.pc = "rangeB"
      /\ ~DR4_S2_goto_next_segment(s2.sieve)) =>
       S2_easy_loops_ok(s2.sieve.x, s2.sieve.b, DR4_S2_easy_bounds(s2.sieve))

\* a b of S2 of pi_deleglise_rivat4.cpp whose clustered loop runs more than
\* once and whose sparse loop visits an l
C21_Witness ==
  /\ s2.pc = "DR4_S2" /\ s2.sieve.pc = "rangeB"
  /\ ~DR4_S2_goto_next_segment(s2.sieve)
  /\ LET bd == DR4_S2_easy_bounds(s2.sieve)
         steps == S2_easy_clustered_steps(s2.sieve.x, s2.sieve.b,
                                          bd.min_clustered_easy_leaf, bd.l)
     IN /\ Len(steps) >= 2
        /\ primes(steps[Len(steps)][3]) > bd.min_sparse_easy_leaf

(***************************************************************************)
(* SpecPhi: phi(x, a, threads) with a team of one thread.                  *)
(***************************************************************************)
MaxPhiX == 44
MaxPhiA == 10

\* inputs above MaxPhiX: the PhiCache path needs a > 7 and a <= pi(sqrt(x))
PhiSamples ==
  {<<1000, 5>>, <<400, 8>>, <<1000, 9>>, <<1000, 11>>, <<5000, 10>>,
   <<5000, 19>>, <<5000, 20>>}

PhiCalls == ((0..MaxPhiX) \X (0..MaxPhiA)) \cup PhiSamples

InitPhi ==
  /\ ph \in {[x |-> call[1], a |-> call[2], pc |-> "call", path |-> "",
               result |-> 0] : call \in PhiCalls}
  /\ entry = Idle /\ s2 = Idle /\ pcache = Idle /\ omp = Idle /\ fai = Idle
  /\ ac = Idle

\* phi(x, a, threads): phi_OpenMP from its first line to its return
PhiCall ==
  /\ ph.pc = "call"
  /\ ph' = [ph EXCEPT !.pc = "returned", !.result = phi(ph.x, ph.a),
                      !.path = phi_OpenMP_path(ph.x, ph.a)]
  /\ UNCHANGED <<entry, s2, pcache, omp, fai, ac>>

NextPhi == PhiCall

SpecPhi == InitPhi /\ [][NextPhi]_vars

\* C2: phi(x, a) returns the number of integers in [1, x] divisible by none
\* of the first a primes, on every return path; phi(x, 0) = x, phi(0, a) = 0,
\* and phi(x, a) = 1 when x >= 1 and primes[a] > x.
C2_PhiIsCount ==
  ph.pc = "returned" =>
    /\ ph.result = PhiRef(ph.x, ph.a)
    /\ ph.a = 0 => ph.result = ph.x
    /\ ph.x = 0 => ph.result = 0
    /\ (ph.x >= 1 /\ primes(ph.a) > ph.x) => ph.result = 1

\* a call that ran the loop over a PhiCache has returned
C2_Witness ==
  /\ ph.pc = "returned" /\ ph.path = "PhiCache"
  /\ ph.x = 5000 /\ ph.a = 19 /\ ph.result = PhiRef(5000, 19)

\* C10 as stated: phi(1000, 5) returns 54.
C10_Phi1000_5_Is54 ==
  (ph.pc = "returned" /\ ph.x = 1000 /\ ph.a = 5) => ph.result = 54

\* C10 amended: phi(1000, 5) returns 207, the number of integers <= 1000
\* coprime to 2, 3, 5, 7 and 11.
C10_Phi1000_5_Is207 ==
  (ph.pc = "returned" /\ ph.x = 1000 /\ ph.a = 5) =>
    /\ ph.result = 207
    /\ ph.result = Cardinality({n \in 1..1000 :
          n % 2 # 0 /\ n % 3 # 0 /\ n % 5 # 0 /\ n % 7 # 0 /\ n % 11 # 0})

\* phi(1000, 5) has returned, by phi_tiny
C10_Witness ==
  ph.pc = "returned" /\ ph.x = 1000 /\ ph.a = 5 /\ ph.path = "phi_tiny"

(***************************************************************************)
(* SpecPix: the call chain phi -> phi_pix -> pi_noprint -> phi.  phi_OpenMP *)
(* runs up to the statement it returns from; phi_pix calls pi_noprint(x),  *)
(* which may return or (pi_legendre) call phi(x, pi(sqrt(x))).             *)
(***************************************************************************)
MaxPixX == 400
MaxPixA == 12
\* the calls of phi made on behalf of one call are counted up to MaxChain
MaxChain == 3

\* x with isqrt(x) above PiTable::max_cached(), where pi(sqrt(x)) = 1794 and
\* pix_upper(sqrt(x)) = 1808 differ, and the a around both
PixSamples ==
  {<<5000, 19>>, <<5000, 20>>, <<5000, 300>>}
  \cup ({235929600, 235950000} \X {1793, 1794, 1795, 1800, 1808, 1809, 1900})

PixCalls ==
  ({x \in 0..MaxPixX : x % 7 = 0 \/ isqrt(x) * isqrt(x) = x} \X (0..MaxPixA))
  \cup PixSamples

PhiPixPaths == {"phi_pix (pix_upper)", "phi_pix (pi_sqrtx)"}

InitPix ==
  /\ ph \in {[x |-> call[1], a |-> call[2], pc |-> "phi_OpenMP", path |-> "",
               first |-> "", chain |-> 0] : call \in PixCalls}
  /\ entry = Idle /\ s2 = Idle /\ pcache = Idle /\ omp = Idle /\ fai = Idle
  /\ ac = Idle

\* phi_OpenMP(x, a, threads) up to the statement it returns from
PixPhiOpenMP ==
  /\ ph.pc = "phi_OpenMP"
  /\ LET path == phi_OpenMP_path(ph.x, ph.a)
     IN ph' = [ph EXCEPT !.path = path,
                         !.first = IF ph.chain = 0 THEN path ELSE @,
                         !.pc = IF path \in PhiPixPaths THEN "phi_pix"
                                ELSE "returned"]
  /\ UNCHANGED <<entry, s2, pcache, omp, fai, ac>>

\* phi_pix(x, a, threads): int64_t pix = pi_noprint(x, threads)
PixPhiPix ==
  /\ ph.pc = "phi_pix"
  /\ ph' = [ph EXCEPT !.pc = "pi_noprint"]
  /\ UNCHANGED <<entry, s2, pcache, omp, fai, ac>>

\* pi_noprint(x) returns without a call of phi
PixPiReturns ==
  /\ ph.pc = "pi_noprint"
  /\ ph' = [ph EXCEPT !.pc = "returned"]
  /\ UNCHANGED <<entry, s2, pcache, omp, fai, ac>>

\* pi_noprint(x) is pi_legendre(x), which calls phi(x, pi(sqrt(x)))
PixPiLegendre ==
  /\ ph.pc = "pi_noprint"
  /\ ph.chain < MaxChain
  /\ ph' = [ph EXCEPT !.pc = "phi_OpenMP", !.a = pi(isqrt(ph.x)),
                      !.chain = @ + 1]
  /\ UNCHANGED <<entry, s2, pcache, omp, fai, ac>>

NextPix == PixPhiOpenMP \/ PixPhiPix \/ PixPiReturns \/ PixPiLegendre

SpecPix == InitPix /\ [][NextPix]_vars

\* C22: phi_OpenMP calls phi_pix(x, a, threads) only with a > pi(sqrt(x)),
\* at both call sites; the call phi(x, pi(sqrt(x))) of a Legendre-style pi(x)
\* never reaches phi_pix, so the chain pi -> phi -> phi_pix -> pi ends after
\* one call of phi by pi.
C22_PhiPixOnlyAbove ==
  /\ ph.pc \in {"phi_pix", "pi_noprint"} =>
       /\ ph.path \in PhiPixPaths
       /\ ph.a > pi(isqrt(ph.x))
       /\ ph.chain = 0
  /\ (ph.pc = "returned" /\ ph.path \in PhiPixPaths) =>
       ph.a > pi(isqrt(ph.x))
  /\ ph.chain <= 1
  /\ (ph.chain = 1 /\ ph.pc = "returned") =>
       /\ ph.a = pi(isqrt(ph.x))
       /\ ph.path \notin PhiPixPaths

\* phi_pix was called at the second call site (pi(sqrt(x)) < a <=
\* pix_upper(sqrt(x))), pi_noprint called phi(x, pi(sqrt(x))), and that call
\* has returned from the loop over a PhiCache
C22_Witness ==
  /\ ph.chain = 1 /\ ph.pc = "returned"
  /\ ph.first = "phi_pix (pi_sqrtx)" /\ ph.path = "PhiCache"

(***************************************************************************)
(* phi.cpp: generate_pi_hyperbolic and generate_phi.  SpecGen runs one call *)
(* of generate_phi, generate_pi_hyperbolic or phi_OpenMP and records top,  *)
(* the largest j of the reads primes_[j] made by PhiCache.                 *)
(***************************************************************************)
\* the first loop of generate_pi_hyperbolic; yields [buf, top, cache]
RECURSIVE generate_pi_hyperbolic_loop(_, _, _, _, _, _, _)
RECURSIVE generate_pi_hyperbolic_next(_, _, _, _, _, _, _)
generate_pi_hyperbolic_loop(cache, n, k, i, buf, top, oob) ==
  IF i >= k THEN [buf |-> buf, top |-> top, cache |-> cache]
  ELSE generate_pi_hyperbolic_next(
         PhiCache_phi(cache, 1, n \div (i + 1), pi(isqrt(n \div (i + 1))),
                      oob),
         n, k, i, buf, top, oob)

\* pi_hyperbolic_buf[i] = cache.phi<1>(m, pi[sqrtm]) + pi[sqrtm] - 1, and
\* the next iteration
generate_pi_hyperbolic_next(r, n, k, i, buf, top, oob) ==
  generate_pi_hyperbolic_loop(r.cache, n, k, i + 1,
    Append(buf, r.sum + pi(isqrt(n \div (i + 1))) - 1), max(top, r.top), oob)

\* the loops "pi_buf[i] = pi[i+1]" and "pi_hyperbolic_buf[i] = pi[n / (i + 1)]"
\* of generate_pi_hyperbolic, after the loop r over the first k entries
generate_pi_hyperbolic_rest(r, n, k) ==
  LET sqrtn == isqrt(n)
  IN [pi_buf |-> [i \in 1..sqrtn |-> pi(i)],
      pi_hyperbolic_buf |->
        r.buf \o [j \in 1..(sqrtn - k) |-> pi(n \div (k + j))],
      top |-> r.top, primes_last |-> pi(sqrtn)]

\* generate_pi_hyperbolic(n, k, pi_buf, pi_hyperbolic_buf); buf[i] of the
\* code is the element i + 1 of the sequence
generate_pi_hyperbolic(n, k, oob) ==
  generate_pi_hyperbolic_rest(
    generate_pi_hyperbolic_loop(
      PhiCache_new(n, pi(isqrt(n)), pi(isqrt(n)), n \div k + 1),
      n, k, 0, << >>, 0, oob),
    n, k)

\* the iterations i <= pi_table[sqrtn] of the loop of generate_phi, the only
\* ones that use earlier entries and the cache; yields [buf, top]
RECURSIVE generate_phi_loop(_, _, _, _, _, _)
RECURSIVE generate_phi_next(_, _, _, _, _, _)
generate_phi_loop(cache, n, hi, i, buf, top) ==
  IF i > hi THEN [buf |-> buf, top |-> top]
  ELSE IF i = 0
  THEN generate_phi_loop(cache, n, hi, 1, << n >>, top)
  ELSE generate_phi_next(
         PhiCache_phi(cache, 1, n \div primes(i), i - 1, 0),
         n, hi, i, buf, top)

\* buf[i] = buf[i - 1] - cache.phi<1>(n / primes[i], i - 1), and the next
\* iteration
generate_phi_next(r, n, hi, i, buf, top) ==
  generate_phi_loop(r.cache, n, hi, i + 1, Append(buf, buf[i] - r.sum),
                    max(top, r.top))

\* the iterations pi_table[sqrtn] < i <= max_a of the loop of generate_phi,
\* after the iterations r up to hi = min(max_a, pi_table[sqrtn])
generate_phi_rest(r, n, max_a) ==
  LET pi_n == pi(n)
      hi == min(max_a, pi(isqrt(n)))
  IN [buf |-> r.buf \o [j \in 1..(max_a - hi) |->
                          IF hi + j <= pi_n THEN pi_n - (hi + j) + 1 ELSE 1],
      top |-> r.top, primes_last |-> pi(isqrt(n))]

\* generate_phi(n, max_a, buf); buf[i] of the code is the element i + 1 of
\* the sequence
generate_phi(n, max_a) ==
  generate_phi_rest(
    generate_phi_loop(
      PhiCache_new(n, pi(isqrt(n)), pi(isqrt(n)), isqrt(n) + 1),
      n, min(max_a, pi(isqrt(n))), 0, << >>, 0),
    n, max_a)

\* generate_phi is run on every n in 0..MaxGenN with max_a in 0..MaxGenA,
\* generate_pi_hyperbolic on every n in 1..MaxGenN with k in 1..isqrt(n)
MaxGenN == 40
MaxGenA == 4

\* larger inputs: pi(sqrt(n)) > PhiTiny::max_a() needs n >= 361
GenPhiSamples == {<<400, 80>>, <<529, 12>>, <<1000, 170>>, <<2000, 16>>}
GenHypSamples ==
  {<<360, 1>>, <<400, 1>>, <<400, 2>>, <<529, 1>>, <<1000, 1>>, <<1000, 2>>,
   <<1000, 31>>, <<5000, 1>>, <<5000, 2>>, <<5000, 25>>}
GenOmpSamples == {<<400, 8>>, <<1000, 9>>, <<1000, 11>>, <<5000, 19>>}

GenCalls ==
  {<<"generate_phi", n, a>> : n \in 0..MaxGenN, a \in 0..MaxGenA}
  \cup {<<"generate_phi", c[1], c[2]>> : c \in GenPhiSamples}
  \cup {<<"generate_pi_hyperbolic", c[1], c[2]>> :
          c \in {d \in (1..MaxGenN) \X (1..isqrt(MaxGenN)) :
                   d[2] <= isqrt(d[1])}
                \cup GenHypSamples}
  \cup {<<"phi_OpenMP", c[1], c[2]>> : c \in GenOmpSamples}

InitGen ==
  /\ pcache \in {[pc |-> "call", fn |-> c[1], n |-> c[2], k |-> c[3],
                   buf |-> << >>, hyp |-> << >>, top |-> 0,
                   primes_last |-> 0] : c \in GenCalls}
  /\ entry = Idle /\ s2 = Idle /\ ph = Idle /\ omp = Idle /\ fai = Idle
  /\ ac = Idle

GenPhiOpenMP_returned(st, r) ==
  [st EXCEPT !.pc = "returned", !.buf = << r.sum >>, !.top = r.top,
             !.primes_last = st.k]

GenPhi_returned(st, r) ==
  [st EXCEPT !.pc = "returned", !.buf = r.buf, !.top = r.top,
             !.primes_last = r.primes_last]

GenPiHyperbolic_returned(st, r) ==
  [st EXCEPT !.pc = "returned", !.buf = r.pi_buf,
             !.hyp = r.pi_hyperbolic_buf, !.top = r.top,
             !.primes_last = r.primes_last]

\* generate_phi(n, max_a, buf)
GenPhi ==
  /\ pcache.pc = "call" /\ pcache.fn = "generate_phi"
  /\ pcache' = GenPhi_returned(pcache, generate_phi(pcache.n, pcache.k))
  /\ UNCHANGED <<entry, s2, ph, omp, fai, ac>>

\* generate_pi_hyperbolic(n, k, pi_buf, pi_hyperbolic_buf); a read behind the
\* end of primes_ yields any of OobValues
GenPiHyperbolic ==
  /\ pcache.pc = "call" /\ pcache.fn = "generate_pi_hyperbolic"
  /\ \E oob \in OobValues :
       pcache' = GenPiHyperbolic_returned(pcache,
                   generate_pi_hyperbolic(pcache.n, pcache.k, oob))
  /\ UNCHANGED <<entry, s2, ph, omp, fai, ac>>

\* phi_OpenMP(x, a, threads) with a team of one thread, for x and a that
\* reach the loop over a PhiCache
GenPhiOpenMP ==
  /\ pcache.pc = "call" /\ pcache.fn = "phi_OpenMP"
  /\ phi_OpenMP_path(pcache.n, pcache.k) = "PhiCache"
  /\ pcache' = GenPhiOpenMP_returned(pcache,
                                     phi_OpenMP_PhiCache(pcache.n, pcache.k))
  /\ UNCHANGED <<entry, s2, ph, omp, fai, ac>>

NextGen == GenPhi \/ GenPiHyperbolic \/ GenPhiOpenMP

SpecGen == InitGen /\ [][NextGen]_vars

\* C23: every read primes_[j] made by PhiCache (phi, is_pix, init_cache) in
\* a call of phi_OpenMP, generate_phi or generate_pi_hyperbolic(n, k, ...)
\* with 1 <= k <= isqrt(n) has j <= the last index of the primes table; in
\* particular is_pix never reads primes_[last + 1].
C23_ReadsInTable ==
  pcache.pc = "returned" => pcache.top <= pcache.primes_last

\* C24: after generate_phi(n, max_a, buf), buf[i] = phi(n, i) for every
\* 0 <= i <= max_a, for every n >= 0 (n = 0 included).
C24_GeneratePhi ==
  (pcache.pc = "returned" /\ pcache.fn = "generate_phi") =>
    /\ Len(pcache.buf) = pcache.k + 1
    /\ \A i \in 0..pcache.k : pcache.buf[i + 1] = PhiRef(pcache.n, i)

(***************************************************************************)
(* SpecCache: one PhiCache object, constructed as phi_OpenMP constructs it *)
(* (primes = generate_n_primes(a), pi = PiTable(isqrt(x))), and a sequence *)
(* of calls of PhiCache::phi<SIGN>(x, a) on it.                            *)
(***************************************************************************)
\* the (x, a) of the constructor: the first enables the cache (max_x_ = 1919,
\* max_a_ = 10), the second leaves it disabled
CacheCtors == {<<30000000, 40>>, <<2000, 12>>}

CacheX == {0, 1, 2, 30, 100, 529, 1000, 1700, 1919, 1920, 3000}
CacheA == {0, 1, 7, 8, 9, 10, 11, 12, 20, 40}

InitCache ==
  /\ pcache \in {[cache |-> PhiCache_new(ctor[1], ctor[2], ctor[2],
                                         isqrt(ctor[1]) + 1),
                   pc |-> "ready", SIGN |-> 1, x |-> 0, a |-> 0, result |-> 0]
                  : ctor \in CacheCtors}
  /\ entry = Idle /\ s2 = Idle /\ ph = Idle /\ omp = Idle /\ fai = Idle
  /\ ac = Idle

\* a call of phi<SIGN>(x, a) with a covered by the primes table
CachePhi ==
  /\ pcache.pc = "ready"
  /\ \E SIGN \in {1, 0 - 1}, x \in CacheX, a \in CacheA :
       /\ a <= pcache.cache.primes_last
       /\ \E oob \in IF a = pcache.cache.primes_last THEN OobValues ELSE {0} :
            LET r == PhiCache_phi(pcache.cache, SIGN, x, a, oob)
            IN pcache' = [cache |-> r.cache, pc |-> "returned", SIGN |-> SIGN,
                          x |-> x, a |-> a, result |-> r.sum]
  /\ UNCHANGED <<entry, s2, ph, omp, fai, ac>>

\* the caller takes the result; the object keeps its cache
CacheReturn ==
  /\ pcache.pc = "returned"
  /\ pcache' = [pcache EXCEPT !.pc = "ready", !.SIGN = 1, !.x = 0, !.a = 0,
                              !.result = 0]
  /\ UNCHANGED <<entry, s2, ph, omp, fai, ac>>

NextCache == CachePhi \/ CacheReturn

SpecCache == InitCache /\ [][NextCache]_vars

PhiCache_cached_levels(cache) ==
  {a \in 0..cache.primes_last : is_cached(cache, 0, a)}

\* level a of the cache is built and answers phi(x, a) for every x <= max_x_
PhiCache_level_ok(cache, a) ==
  LET coprime == {n \in 1..cache.max_x_ :
                    \A i \in 1..a : n % PrimeSeq[i] # 0}
  IN /\ a \in DOMAIN cache.sieve_
     /\ cache.sieve_[a] = coprime
     /\ Len(cache.count_[a]) = cache.max_x_size_
     /\ \A j \in 0..(cache.max_x_size_ - 1) :
          cache.count_[a][j + 1] = Cardinality({n \in coprime : n < 240 * j})
     /\ \A x \in 0..cache.max_x_ :
          phi_cache(cache, x, a) = Cardinality({n \in coprime : n <= x})

\* C20, between the calls: every level a with PhiTiny::max_a() < a <=
\* max_a_cached_ holds the numbers coprime to the first a primes, its counts
\* are the numbers of set bits before each window, and phi_cache(x, a)
\* returns phi(x, a) for every x <= max_x_; is_cached holds for no other
\* level, and max_a_cached_ <= max_a_ once the cache is enabled.
C20_CacheLevels ==
  pcache.pc = "ready" =>
    LET cache == pcache.cache
    IN /\ PhiCache_cached_levels(cache)
            = (PhiTiny_max_a + 1)..cache.max_a_cached_
       /\ cache.max_a_cached_ <= max(cache.max_a_, 0)
       /\ \A a \in PhiCache_cached_levels(cache) : PhiCache_level_ok(cache, a)

\* C20, at every step: max_a_cached_ never decreases.
C20_CachedNeverDecreases ==
  pcache'.cache.max_a_cached_ >= pcache.cache.max_a_cached_

\* C20: after any sequence of init_cache calls phi_cache(x, a) returns
\* phi(x, a) for every cached level a and every x <= max_x_; phi_cache is
\* called for cached levels only, and max_a_cached_ never decreases and never
\* exceeds max_a_.
C20_PhiCacheInvariant ==
  []C20_CacheLevels /\ [][C20_CachedNeverDecreases]_vars

\* a cache between two calls with three levels built
C20_Witness ==
  /\ pcache.pc = "ready"
  /\ pcache.cache.max_a_cached_ = PhiTiny_max_a + 3
  /\ pcache.cache.sieve_[PhiTiny_max_a + 1] # pcache.cache.sieve_[PhiTiny_max_a + 2]
  /\ pcache.cache.count_[PhiTiny_max_a + 3][2] > 0

(***************************************************************************)
(* SpecOmp: the parallel region of phi_OpenMP.  Every thread of the team   *)
(* constructs its own PhiCache, takes chunks of 16 loop indices from the   *)
(* dynamic schedule and adds cache.phi<-1>(x / primes[i], i - 1) to its    *)
(* private sum; the reduction adds the private sums to sum.                *)
(***************************************************************************)
\* thread_threshold (1e10 in phi_OpenMP), scaled to the model's integers
thread_threshold == 1000000
\* schedule(dynamic, 16)
omp_chunk == 16

\* ideal_num_threads(x, threads, thread_threshold)
ideal_num_threads(x, threads, threshold) ==
  in_between(1, threads, ceil_div(x, max(1, threshold)))

\* threads = min(threads, (int) sqrt(a)); threads = ideal_num_threads(...)
omp_num_threads(x, a, threads) ==
  ideal_num_threads(x, min(threads, isqrt(a)), thread_threshold)

\* the (x, a) of the calls: both take the PhiCache path, the first with the
\* cache enabled
OmpInputs == {<<30000000, 40>>, <<5000, 19>>}
\* the threads argument of phi(x, a, threads)
OmpThreads == {1, 2}

omp_worker(x, a) ==
  [pc |-> "take", i |-> 0, hi |-> 0 - 1, sum |-> 0,
   cache |-> PhiCache_new(x, a, a, isqrt(x) + 1), value |-> 0, fresh |-> 0]

omp_init(x, a, threads) ==
  LET c == min(PhiTiny_max_a, a)
      T == omp_num_threads(x, a, threads)
  IN [x |-> x, a |-> a, threads |-> threads, T |-> T, c |-> c,
      sum |-> phi_tiny(x, c), next |-> c + 1, pc |-> "parallel",
      worker |-> [t \in 1..T |-> omp_worker(x, a)]]

InitOmp ==
  /\ omp \in {omp_init(in[1], in[2], threads) :
               in \in OmpInputs, threads \in OmpThreads}
  /\ entry = Idle /\ s2 = Idle /\ ph = Idle /\ pcache = Idle /\ fai = Idle
  /\ ac = Idle

\* thread t asks the schedule for the next chunk of indices; with none left
\* it leaves the loop (nowait)
OmpTake(t) ==
  /\ omp.pc = "parallel" /\ t <= omp.T /\ omp.worker[t].pc = "take"
  /\ omp' = IF omp.next <= omp.a
            THEN [omp EXCEPT !.next = @ + omp_chunk,
                             !.worker[t].pc = "loop",
                             !.worker[t].i = omp.next,
                             !.worker[t].hi = min(omp.next + omp_chunk - 1,
                                                  omp.a)]
            ELSE [omp EXCEPT !.worker[t].pc = "done"]
  /\ UNCHANGED <<entry, s2, ph, pcache, fai, ac>>

\* thread t runs one iteration: sum += cache.phi<-1>(x / primes[i], i - 1)
OmpIter(t) ==
  /\ omp.pc = "parallel" /\ t <= omp.T /\ omp.worker[t].pc = "loop"
  /\ LET w == omp.worker[t]
         xp == omp.x \div primes(w.i)
         r == PhiCache_phi(w.cache, 0 - 1, xp, w.i - 1, 0)
         f == PhiCache_phi(PhiCache_new(omp.x, omp.a, omp.a, isqrt(omp.x) + 1),
                           0 - 1, xp, w.i - 1, 0)
     IN omp' = [omp EXCEPT
                  !.worker[t] = [pc |-> IF w.i + 1 > w.hi THEN "take"
                                                          ELSE "loop",
                                 i |-> w.i + 1, hi |-> w.hi,
                                 sum |-> w.sum + r.sum, cache |-> r.cache,
                                 value |-> r.sum, fresh |-> f.sum]]
  /\ UNCHANGED <<entry, s2, ph, pcache, fai, ac>>

RECURSIVE omp_reduction(_, _)
omp_reduction(worker, t) ==
  IF t = 0 THEN 0 ELSE worker[t].sum + omp_reduction(worker, t - 1)

\* the end of the region: reduction(+: sum), then return sum
OmpReduce ==
  /\ omp.pc = "parallel"
  /\ \A t \in 1..omp.T : omp.worker[t].pc = "done"
  /\ omp' = [omp EXCEPT !.sum = @ + omp_reduction(omp.worker, omp.T),
                        !.pc = "returned"]
  /\ UNCHANGED <<entry, s2, ph, pcache, fai, ac>>

NextOmp ==
  \/ \E t \in OmpThreads : OmpTake(t)
  \/ \E t \in OmpThreads : OmpIter(t)
  \/ OmpReduce

SpecOmp == InitOmp /\ [][NextOmp]_vars

\* C8: the value phi_OpenMP returns is the one a team of one thread returns,
\* whatever the team size and the assignment of the chunks to the threads;
\* and every call of PhiCache::phi on a thread's own cache returns what it
\* returns on a newly constructed cache.
C8_SameForEverySchedule ==
  /\ omp.pc \in {"parallel", "returned"} =>
       \A t \in 1..omp.T : omp.worker[t].value = omp.worker[t].fresh
  /\ omp.pc = "returned" => omp.sum = phi_OpenMP(omp.x, omp.a)

\* a team of two has returned, both threads ran iterations and their caches
\* ended in different states
C8_Witness ==
  /\ omp.pc = "returned" /\ omp.T = 2
  /\ omp.worker[1].sum # 0 /\ omp.worker[2].sum # 0
  /\ omp.worker[1].cache # omp.worker[2].cache

(***************************************************************************)
(* SpecAtomic: a team of threads in for_atomic_inc(start, b <= max,        *)
(* atomic_b).  The relaxed operations on atomic_b are atomic read-modify-  *)
(* write steps; everything else is local to a thread.                      *)
(***************************************************************************)
MaxFaiThreads == 3
MaxFaiStart == 1
\* the loops run over start..max with max - start + 1 <= MaxFaiLen
MaxFaiLen == 3

\* a plain store of desired in place of the compare-exchange
atomic_store(atomic, expected, desired) == <<TRUE, desired, expected>>

\* atomic_b.compare_exchange_strong(expected, desired): yields
\* <<success, atomic_b, expected>>
compare_exchange_strong(atomic, expected, desired) ==
  IF atomic = expected THEN <<TRUE, desired, expected>>
                       ELSE <<FALSE, atomic, atomic>>

\* atomic_b.fetch_add(n): yields <<the value before, atomic_b>>
fetch_add(atomic, n) == <<atomic, atomic + n>>

FaiInputs ==
  {[start |-> lo, max |-> hi, T |-> T] :
     lo \in 0..MaxFaiStart,
     hi \in (0 - 1)..(MaxFaiStart + MaxFaiLen - 1),
     T \in 1..MaxFaiThreads}

InitAtomic ==
  /\ fai \in {[pc |-> "parallel", start |-> in.start, max |-> in.max,
                T |-> in.T,
                atomic_b |-> 0 - 1,
                thread |-> [t \in 1..in.T |->
                             [pc |-> "cas", b |-> 0, is_first_thread |-> 0 - 1]],
                body |-> [b \in 0..(MaxFaiStart + MaxFaiLen + MaxFaiThreads)
                            |-> 0]]
               : in \in {i \in FaiInputs :
                           i.start - 1 <= i.max
                           /\ i.max - i.start + 1 <= MaxFaiLen}}
  /\ entry = Idle /\ s2 = Idle /\ ph = Idle /\ pcache = Idle /\ omp = Idle
  /\ ac = Idle

\* is_first_thread = -1;
\* atomic_b.compare_exchange_strong(is_first_thread, start, relaxed)
FaiCas(t) ==
  /\ fai.pc # "idle" /\ t <= fai.T /\ fai.thread[t].pc = "cas"
  /\ LET r == compare_exchange_strong(fai.atomic_b,
                                      fai.thread[t].is_first_thread, fai.start)
     IN fai' = [fai EXCEPT !.atomic_b = r[2],
                           !.thread[t].is_first_thread = r[3],
                           !.thread[t].pc = "fetch_add"]
  /\ UNCHANGED <<entry, s2, ph, pcache, omp, ac>>

\* b = atomic_b.fetch_add(1, relaxed), then the condition b <= max
FaiFetchAdd(t) ==
  /\ fai.pc # "idle" /\ t <= fai.T /\ fai.thread[t].pc = "fetch_add"
  /\ LET r == fetch_add(fai.atomic_b, 1)
     IN fai' = [fai EXCEPT !.atomic_b = r[2],
                           !.thread[t].b = r[1],
                           !.thread[t].pc = IF r[1] <= fai.max THEN "body"
                                                                ELSE "exit"]
  /\ UNCHANGED <<entry, s2, ph, pcache, omp, ac>>

\* the loop body with the thread's b
FaiBody(t) ==
  /\ fai.pc # "idle" /\ t <= fai.T /\ fai.thread[t].pc = "body"
  /\ fai' = [fai EXCEPT !.body[fai.thread[t].b] = @ + 1,
                        !.thread[t].pc = "fetch_add"]
  /\ UNCHANGED <<entry, s2, ph, pcache, omp, ac>>

NextAtomic ==
  \/ \E t \in 1..MaxFaiThreads : FaiCas(t)
  \/ \E t \in 1..MaxFaiThreads : FaiFetchAdd(t)
  \/ \E t \in 1..MaxFaiThreads : FaiBody(t)

SpecAtomic == InitAtomic /\ [][NextAtomic]_vars

\* every thread of the team keeps running until it leaves the loop
SpecAtomicFair ==
  /\ SpecAtomic
  /\ \A t \in 1..MaxFaiThreads :
       WF_vars(FaiCas(t) \/ FaiFetchAdd(t) \/ FaiBody(t))

FaiAllExited == \A t \in 1..fai.T : fai.thread[t].pc = "exit"

\* no body has run twice or with a b outside start..max, and once every
\* thread has left the loop each b in start..max has run exactly once
FaiSafe ==
  /\ \A b \in DOMAIN fai.body :
       /\ fai.body[b] <= 1
       /\ fai.body[b] = 1 => (fai.start <= b /\ b <= fai.max)
  /\ FaiAllExited => \A b \in fai.start..fai.max : fai.body[b] = 1

\* C9: with atomic_b = -1 at region entry and start >= 0, under every
\* interleaving each b in start..max is the loop variable of exactly one body
\* execution, no body runs with another b, and every thread leaves the loop.
C9_DynamicFor == [](FaiSafe) /\ <>(FaiAllExited)

\* a team of three has left a loop over three values, and not all bodies ran
\* on one thread
C9_Witness ==
  /\ FaiAllExited /\ fai.T = 3 /\ fai.max - fai.start = 2
  /\ \A b \in fai.start..fai.max : fai.body[b] = 1
  /\ \E t \in 1..fai.T : fai.thread[t].is_first_thread # 0 - 1

(***************************************************************************)
(* SpecAC: a call of AC_OpenMP.  The C1 loop runs first, then the segment  *)
(* loop advances the SegmentedPiTable window by window.  The segment size  *)
(* is the one the SegmentedPiTable was constructed with; a lookup outside  *)
(* the current window reads behind the table's vector and may yield any    *)
(* of OobPi.                                                               *)
(***************************************************************************)
\* (x, y, z, k) with y = 2 * iroot3(x), z = y and y = 2 * iroot3(x) - 1,
\* z = y; k = pi[min(iroot4(x), 17)]
ACInputs == {<<130325, 100, 100, 7>>, <<10000, 42, 42, 4>>}

\* the segment sizes of the SegmentedPiTable: small ones, z, and one window
\* over the whole of [0, isqrt(x)]
ACSegmentSizes(x, z) == {8, 16, 32, 64, z, isqrt(x) + 1}

\* what a lookup segmentedPi[n] outside [low, high) may yield
OobPi == {0, 1}

InitAC ==
  /\ ac \in UNION {{AC_init(in[1], in[2], in[3], in[4], segment_size) :
                     segment_size \in ACSegmentSizes(in[1], in[3])} :
                   in \in ACInputs}
  /\ entry = Idle /\ s2 = Idle /\ ph = Idle /\ pcache = Idle /\ omp = Idle
  /\ fai = Idle

\* the first loop: sum -= C1<-1>(...)
ACC1 ==
  /\ ac.pc = "C1"
  /\ ac' = AC_C1(ac)
  /\ UNCHANGED <<entry, s2, ph, pcache, omp, fai>>

\* one iteration of "for (; !segmentedPi.finished(); segmentedPi.next())"
ACSegment ==
  /\ ac.pc = "segment"
  /\ \E oob \in OobPi : ac' = AC_segment(ac, oob)
  /\ UNCHANGED <<entry, s2, ph, pcache, omp, fai>>

\* return sum
ACReturn ==
  /\ ac.pc = "done"
  /\ ac' = [ac EXCEPT !.pc = "returned"]
  /\ UNCHANGED <<entry, s2, ph, pcache, omp, fai>>

NextAC == ACC1 \/ ACSegment \/ ACReturn

SpecAC == InitAC /\ [][NextAC]_vars

MaxC1X == 24

\* (x, y, z, k): y = 5 * iroot3(x) and z = 5 * y
C1Inputs ==
  {<<x, 5 * iroot3(x), 25 * iroot3(x), k>> :
     x \in {4100 + 97 * j : j \in 0..MaxC1X}, k \in 1..2}

InitC1 ==
  /\ ac \in UNION {{AC_C1_args(in[1], in[2], in[3], in[4], b) :
                     b \in AC_C1_range(in[1], in[3], in[4])} : in \in C1Inputs}
  /\ entry = Idle /\ s2 = Idle /\ ph = Idle /\ pcache = Idle /\ omp = Idle
  /\ fai = Idle

\* C1<-1>(xp, b, b, pi_y, 1, min_m, max_m, primes, pi)
C1Call ==
  /\ ac.pc = "C1"
  /\ ac' = [ac EXCEPT
              !.pc = "returned",
              !.sum = C1(0 - 1, ac.xp, ac.b, ac.b, ac.pi_y, 1, ac.min_m,
                         ac.max_m),
              !.leaves = C1_leaves(0 - 1, ac.b, ac.pi_y, 1, ac.min_m,
                                   ac.max_m)]
  /\ UNCHANGED <<entry, s2, ph, pcache, omp, fai>>

SpecC1 == InitC1 /\ [][C1Call]_vars

\* the square-free m > 1 with min_m < m <= max_m whose prime factors all lie
\* in {primes[b + 1], ..., primes[pi_y]}
C1Ref_m(b, pi_y, min_m, max_m) ==
  {m \in (min_m + 1)..max_m :
     /\ m > 1
     /\ \A k \in 1..NumPrimes :
          (PrimeSeq[k] <= m /\ m % PrimeSeq[k] = 0) =>
            /\ b < k /\ k <= pi_y
            /\ m % (PrimeSeq[k] * PrimeSeq[k]) # 0}

RECURSIVE C1Ref_sum(_, _, _)
C1Ref_sum(xp, b, ms) ==
  IF ms = {} THEN 0
  ELSE LET m == CHOOSE n \in ms : TRUE
       IN MuRef(m) * (PiRef(xp \div m) - b + 2) + C1Ref_sum(xp, b, ms \ {m})

\* C18: for every b of the first loop of AC_OpenMP the call
\* C1<-1>(xp, b, b, pi_y, 1, min_m, max_m, ...) returns the sum of
\* mu(m) * (pi(xp / m) - b + 2) over exactly the square-free m > 1 with all
\* prime factors in {primes[b + 1], ..., primes[pi_y]} and
\* min_m < m <= max_m; each such m is visited once, with MU = mu(m).
C18_C1IsSquareFreeSum ==
  ac.pc = "returned" =>
    LET ms == C1Ref_m(ac.b, ac.pi_y, ac.min_m, ac.max_m)
    IN /\ ac.sum = C1Ref_sum(ac.xp, ac.b, ms)
       /\ {ac.leaves[j] : j \in 1..Len(ac.leaves)}
            = {<<m, MuRef(m)>> : m \in ms}
       /\ Len(ac.leaves) = Cardinality(ms)

\* a call has returned that visited an m with two and an m with three prime
\* factors
C18_Witness ==
  /\ ac.pc = "returned"
  /\ \E j \in 1..Len(ac.leaves) :
       ac.leaves[j][2] = 1
  /\ \E j \in 1..Len(ac.leaves) :
       ac.leaves[j][2] = 0 - 1 /\ ~IsPrime(ac.leaves[j][1])

(***************************************************************************)
(* SpecTrivial: single calls S2_trivial(x, y, z, c, pi, primes) for        *)
(* y * z <= x < y * (z + 1) and every c with 0 <= c <= pi(y).              *)
(***************************************************************************)
MaxTrivialZ == 6

\* (x, y, z): y one of two primes, z above and below 17^2, x the least and
\* the largest with x / y = z
TrivialInputs ==
  {<<y * z + r * (y - 1), y, z>> :
     y \in {19, 23}, z \in (200..(200 + MaxTrivialZ)) \cup (300..302),
     r \in 0..1}

InitTrivial ==
  /\ s2 \in UNION {{[pc |-> "S2_trivial_call", x |-> in[1], y |-> in[2],
                     z |-> in[3], c |-> c, S2_result |-> 0] :
                     c \in 0..pi(in[2])} : in \in TrivialInputs}
  /\ entry = Idle /\ ph = Idle /\ pcache = Idle /\ omp = Idle /\ fai = Idle
  /\ ac = Idle

\* S2_trivial(x, y, z, c, pi, primes)
S2TrivialCall ==
  /\ s2.pc = "S2_trivial_call"
  /\ s2' = [s2 EXCEPT !.pc = "S2_trivial_returned",
                      !.S2_result = S2_trivial(s2.x, s2.y, s2.z, s2.c)]
  /\ UNCHANGED <<entry, ph, pcache, omp, fai, ac>>

SpecTrivial == InitTrivial /\ [][S2TrivialCall]_vars

\* the sum of pi(y) - pi(max(x / p_b^2, p_b)) over the b of a set
RECURSIVE S2TrivialRef(_, _, _)
S2TrivialRef(x, y, bs) ==
  IF bs = {} THEN 0
  ELSE LET b == CHOOSE k \in bs : TRUE
           prime == PrimeSeq[b]
       IN PiRef(y) - PiRef(max(x \div (prime * prime), prime))
          + S2TrivialRef(x, y, bs \ {b})

====
